---------------------------- MODULE Spec2Model ----------------------------
(***************************************************************************)
(* did:pkarr: the DID-document <-> TXT-record codec, the signed-packet     *)
(* boundary of DidPkarrDocument, and the operations built on them.         *)
(*                                                                         *)
(* Text is modelled as a sequence of one-character strings, so that the    *)
(* formatting and the parsing the code does ("{prefix}{idx}={value}",      *)
(* the split at the first '=', the split at the first digit, the u8 parse, *)
(* base64url, z-base-32) are computed and not assumed.                     *)
(***************************************************************************)
EXTENDS Integers, Sequences, FiniteSets, TLC

(***************************************************************************)
(* Bounds of the model.                                                    *)
(***************************************************************************)
\* longest aka / vm / vr list of the enumerated input documents
MaxList == 2
\* most character-strings in an enumerated wire record
MaxAttrs == 3
\* records with at most this many attributes are drained in every order
MaxPerm == 3
\* most resource records in an enumerated signed packet
MaxRecords == 2
\* largest timestamp handed to to_pkarr_packet
MaxTs == 1
\* most DidPkarr values constructed in one behaviour
MaxDids == 2

(***************************************************************************)
(* Program constants.                                                      *)
(***************************************************************************)
\* u8::MAX, the attribute limit of the decoder and the range of an index
U8_MAX == 255
\* the most bytes a DNS character-string holds
MAX_CHARACTER_STRING_LENGTH == 255

(***************************************************************************)
(* Characters.  AsciiTable lists every character the model uses in         *)
(* increasing ASCII order; Ord gives the position, which orders strings    *)
(* the way Rust's str ordering (bytewise) does.                            *)
(***************************************************************************)
Digits == <<"0", "1", "2", "3", "4", "5", "6", "7", "8", "9">>

Upper == <<"A", "B", "C", "D", "E", "F", "G", "H", "I", "J", "K", "L", "M",
           "N", "O", "P", "Q", "R", "S", "T", "U", "V", "W", "X", "Y", "Z">>

Lower == <<"a", "b", "c", "d", "e", "f", "g", "h", "i", "j", "k", "l", "m",
           "n", "o", "p", "q", "r", "s", "t", "u", "v", "w", "x", "y", "z">>

AsciiTable ==
    <<" ", "!", "#", "%", "+", "-", ".", "/">> \o Digits
      \o <<":", ";", "=", "?">> \o Upper \o <<"_">> \o Lower

Range(s) == {s[i] : i \in DOMAIN s}

DigitSet == Range(Digits)

AlphaSet == Range(Upper) \cup Range(Lower)

OrdTable == [c \in Range(AsciiTable) |->
                CHOOSE i \in DOMAIN AsciiTable : AsciiTable[i] = c]

Ord(c) == OrdTable[c]

\* char::is_ascii_digit
IsAsciiDigit(c) == c \in DigitSet

DigitVal(c) == (CHOOSE i \in DOMAIN Digits : Digits[i] = c) - 1

\* str as Ord: bytewise lexicographic, a proper prefix is smaller
RECURSIVE StrLess(_, _)
StrLess(a, b) ==
    IF b = <<>> THEN FALSE
    ELSE IF a = <<>> THEN TRUE
    ELSE IF Ord(Head(a)) # Ord(Head(b)) THEN Ord(Head(a)) < Ord(Head(b))
    ELSE StrLess(Tail(a), Tail(b))

StrLeq(a, b) == a = b \/ StrLess(a, b)

\* Iterator::is_sorted over a sequence of strings
IsSorted(keys) == \A i \in 1..(Len(keys) - 1) : StrLeq(keys[i], keys[i + 1])

\* position of the first element of s, from position i on, that is in set;
\* 0 when there is none (str::find with a character test)
FirstIndexFrom(s, set, i) ==
    LET hits == {j \in i..Len(s) : s[j] \in set} IN
    IF hits = {} THEN 0 ELSE CHOOSE j \in hits : \A k \in hits : j <= k

FirstIndexIn(s, set) == FirstIndexFrom(s, set, 1)

\* usize Display: the decimal digits of n, no leading zeros
RECURSIVE Dec(_)
Dec(n) == IF n < 10 THEN <<Digits[n + 1]>>
          ELSE Dec(n \div 10) \o <<Digits[(n % 10) + 1]>>


(***************************************************************************)
(* Integers as the code uses them.                                         *)
(***************************************************************************)
RECURSIVE BitAnd(_, _)
BitAnd(a, b) ==
    IF a = 0 \/ b = 0 THEN 0
    ELSE (a % 2) * (b % 2) + 2 * BitAnd(a \div 2, b \div 2)

\* <u8 as FromStr>::from_str on a string of the key: every character must be
\* a decimal digit and the value must fit a u8; the accumulation is checked
\* digit by digit, as checked_mul / checked_add do.
RECURSIVE ParseU8From(_, _, _)
ParseU8From(s, i, acc) ==
    IF i > Len(s) THEN [ok |-> TRUE, val |-> acc]
    ELSE IF ~IsAsciiDigit(s[i]) THEN [ok |-> FALSE, kind |-> "InvalidDigit"]
    ELSE IF acc * 10 + DigitVal(s[i]) > U8_MAX
         THEN [ok |-> FALSE, kind |-> "PosOverflow"]
    ELSE ParseU8From(s, i + 1, acc * 10 + DigitVal(s[i]))

ParseU8(s) ==
    IF s = <<>> THEN [ok |-> FALSE, kind |-> "Empty"]
    ELSE ParseU8From(s, 1, 0)

(***************************************************************************)
(* base64url without padding (BASE64_URL_SAFE_NO_PAD).                     *)
(***************************************************************************)
B64Alphabet == Upper \o Lower \o Digits \o <<"-", "_">>

B64Char(sextet) == B64Alphabet[sextet + 1]

B64Index(c) == (CHOOSE i \in DOMAIN B64Alphabet : B64Alphabet[i] = c) - 1

\* encode_string: three bytes give four characters, a tail of one or two
\* bytes gives two or three characters, no '=' is appended.
\* B64EncFrom is the characters of the group of bytes that starts at i
\* (the groups are indexed, not chained, to keep the evaluation shallow)
B64EncFrom(bytes, i) ==
    LET n == Len(bytes) - i + 1 IN
    IF n <= 0 THEN <<>>
    ELSE IF n = 1 THEN
        <<B64Char(bytes[i] \div 4), B64Char((bytes[i] % 4) * 16)>>
    ELSE IF n = 2 THEN
        <<B64Char(bytes[i] \div 4),
          B64Char((bytes[i] % 4) * 16 + bytes[i + 1] \div 16),
          B64Char((bytes[i + 1] % 16) * 4)>>
    ELSE
        <<B64Char(bytes[i] \div 4),
          B64Char((bytes[i] % 4) * 16 + bytes[i + 1] \div 16),
          B64Char((bytes[i + 1] % 16) * 4 + bytes[i + 2] \div 64),
          B64Char(bytes[i + 2] % 64)>>

B64Enc(bytes) ==
    LET n == Len(bytes)
        len == 4 * (n \div 3) + (IF n % 3 = 0 THEN 0 ELSE (n % 3) + 1)
    IN [k \in 1..len |-> B64EncFrom(bytes, 3 * ((k - 1) \div 4) + 1)[((k - 1) % 4) + 1]]

\* the bytes of the group of characters that starts at i
B64DecFrom(sx, i) ==
    LET n == Len(sx) - i + 1 IN
    IF n <= 0 THEN <<>>
    ELSE IF n = 2 THEN <<sx[i] * 4 + sx[i + 1] \div 16>>
    ELSE IF n = 3 THEN
        <<sx[i] * 4 + sx[i + 1] \div 16,
          (sx[i + 1] % 16) * 16 + sx[i + 2] \div 4>>
    ELSE
        <<sx[i] * 4 + sx[i + 1] \div 16,
          (sx[i + 1] % 16) * 16 + sx[i + 2] \div 4,
          (sx[i + 2] % 4) * 64 + sx[i + 3]>>

\* b64_dec: a character outside the alphabet (so also '='), a length of
\* 1 mod 4, and non-zero unused bits in the last character are errors
b64_dec(s) ==
    IF \E i \in DOMAIN s : s[i] \notin Range(B64Alphabet)
    THEN [ok |-> FALSE, kind |-> "InvalidByte"]
    ELSE IF Len(s) % 4 = 1 THEN [ok |-> FALSE, kind |-> "InvalidLength"]
    ELSE LET sx == [i \in DOMAIN s |-> B64Index(s[i])] IN
         IF \/ Len(s) % 4 = 2 /\ sx[Len(s)] % 16 # 0
            \/ Len(s) % 4 = 3 /\ sx[Len(s)] % 4 # 0
         THEN [ok |-> FALSE, kind |-> "InvalidLastSymbol"]
         ELSE LET n == Len(sx)
                  len == 3 * (n \div 4) + (IF n % 4 = 0 THEN 0 ELSE (n % 4) - 1)
              IN [ok |-> TRUE,
                  bytes |-> [k \in 1..len |->
                      B64DecFrom(sx, 4 * ((k - 1) \div 3) + 1)[((k - 1) % 3) + 1]]]

(***************************************************************************)
(* VerificationRelationship: a u8 bit set.                                 *)
(***************************************************************************)
Authentication == 1
Assertion == 2
KeyAgreement == 4

\* VerificationRelationship::all(): the union of the declared flags
AllRelationships == Authentication + Assertion + KeyAgreement

\* A variant of from_bits_truncate that keeps every bit (from_bits_retain).
FromBitsRetain(bits) == bits

\* bitflags' from_bits_truncate: unknown bits are dropped, nothing fails
from_bits_truncate(bits) == BitAnd(bits, AllRelationships)

\* bitflags' contains
Contains(vr, flag) == BitAnd(vr, flag) = flag

(***************************************************************************)
(* URIs (fluent_uri::Uri<String>), DIDs and verification methods.  A Uri   *)
(* is its text: fluent_uri keeps the input unchanged and compares texts.   *)
(***************************************************************************)
HexSet == DigitSet \cup {"a", "b", "c", "d", "e", "f", "A", "B", "C", "D", "E", "F"}

\* characters allowed after the scheme (unreserved, sub-delims, ':', '/', '?')
UriCharSet ==
    AlphaSet \cup DigitSet \cup {"-", ".", "_", "!", "+", ";", "=", ":", "/", "?"}

\* s[from..to] as a sequence (empty when from > to)
Slice(s, from, to) == [i \in 1..(to - from + 1) |-> s[from + i - 1]]

\* Uri::try_from(String): RFC 3986 "scheme ':' hier-part ['?' query]
\* ['#' fragment]"; a scheme is a letter followed by letters, digits, '+',
\* '-', '.'; a '%' starts a two-digit hex escape; one '#' at most
IsUri(s) ==
    LET colon == FirstIndexIn(s, {":"}) IN
    /\ colon >= 2
    /\ s[1] \in AlphaSet
    /\ \A i \in 2..(colon - 1) : s[i] \in AlphaSet \cup DigitSet \cup {"+", "-", "."}
    /\ \A i \in (colon + 1)..Len(s) :
          \/ s[i] \in UriCharSet
          \/ s[i] = "#" /\ \A j \in (colon + 1)..(i - 1) : s[j] # "#"
          \/ s[i] = "%" /\ i + 2 <= Len(s) /\ s[i + 1] \in HexSet /\ s[i + 2] \in HexSet

\* Uri::scheme
UriScheme(s) == Slice(s, 1, FirstIndexIn(s, {":"}) - 1)

\* the text after "scheme:"
UriRest(s) == Slice(s, FirstIndexIn(s, {":"}) + 1, Len(s))

\* Uri::authority().is_some(): the hier-part starts with "//"
UriHasAuthority(s) ==
    LET r == UriRest(s) IN Len(r) >= 2 /\ r[1] = "/" /\ r[2] = "/"

\* Uri::path: after the authority, up to the query or the fragment
UriPath(s) ==
    LET r == UriRest(s)
        body == IF UriHasAuthority(s)
                THEN LET a == Slice(r, 3, Len(r))
                         e == FirstIndexIn(a, {"/", "?", "#"})
                     IN IF e = 0 THEN <<>> ELSE Slice(a, e, Len(a))
                ELSE r
        stop == FirstIndexIn(body, {"?", "#"})
    IN IF stop = 0 THEN body ELSE Slice(body, 1, stop - 1)

DID_PREFIX == <<"d", "i", "d">>

\* TryFrom<Uri<String>> for Did
DidFromUri(uri) ==
    IF UriScheme(uri) # DID_PREFIX \/ UriHasAuthority(uri)
    THEN [ok |-> FALSE, err |-> "WrongPrefix"]
    ELSE LET path == UriPath(uri)
             colon == FirstIndexIn(path, {":"})
         IN IF colon = 0 THEN [ok |-> FALSE, err |-> "MissingMethod"]
            ELSE IF colon = Len(path)
                 THEN [ok |-> FALSE, err |-> "EmptyMethodSpecificId"]
            ELSE [ok |-> TRUE,
                  val |-> [uri |-> uri, method |-> <<4, 4 + (colon - 1)>>]]

\* Did::method
DidMethod(did) == Slice(did.uri, did.method[1] + 1, did.method[2])

\* FromStr for Did
DidFromStr(s) ==
    IF ~IsUri(s) THEN [ok |-> FALSE, err |-> "NotAUri"] ELSE DidFromUri(s)

\* From<Did> for VerificationMethod: DidKey iff the text before the first ':'
\* of the path is "key"
VmFromDid(did) ==
    LET path == UriPath(did.uri)
        prefix == Slice(path, 1, FirstIndexIn(path, {":"}) - 1)
    IN IF prefix = <<"k", "e", "y">>
       THEN [tag |-> "DidKey", did |-> did]
       ELSE [tag |-> "DidUrl", did |-> did]

\* TryFrom<String> for VerificationMethod
VmTryFrom(s) ==
    IF ~IsUri(s) THEN [ok |-> FALSE, err |-> "NotAUri"]
    ELSE LET d == DidFromUri(s) IN
         IF ~d.ok THEN [ok |-> FALSE, err |-> "NotADid"]
         ELSE [ok |-> TRUE, val |-> VmFromDid(d.val)]

\* Display for VerificationMethod: the DID's text
VmDisplay(vm) == vm.did.uri

(***************************************************************************)
(* The TXT record: a sequence of character-strings, each a text.           *)
(* DidDocumentContents is [aka, vm, vr]: aka a sequence of Uri texts, vm a *)
(* sequence of verification methods, vr a sequence of u8 bit sets.         *)
(***************************************************************************)
AKA == <<"a", "k", "a">>
VM == <<"v", "m">>
VR == <<"v", "r">>

None == [some |-> FALSE]
Some(v) == [some |-> TRUE, v |-> v]

\* populate_txt_from_iter numbering the elements from one
populate_txt_one_based(key_prefix, texts) ==
    [i \in 1..Len(texts) |-> key_prefix \o Dec(i) \o <<"=">> \o texts[i]]

\* populate_txt_from_iter: one character-string "{key_prefix}{key_idx}={v}"
\* per element, key_idx counting from 0
populate_txt_from_iter(key_prefix, texts) ==
    [i \in 1..Len(texts) |-> key_prefix \o Dec(i - 1) \o <<"=">> \o texts[i]]

\* the "vr=" attribute: the relationships cast to bytes, base64url-encoded
VrAttr(vr) == VR \o <<"=">> \o B64Enc(vr)

\* to_txt_record that writes the vr attribute only for a vr that is not
\* empty
ToTxtRecordSkipEmptyVr(x) ==
    populate_txt_from_iter(AKA, x.aka)
      \o populate_txt_from_iter(VM, [i \in DOMAIN x.vm |-> VmDisplay(x.vm[i])])
      \o IF x.vr = <<>> THEN <<>> ELSE <<VrAttr(x.vr)>>

\* DidDocumentContents::to_txt_record: the record it returns when it
\* returns
ToTxtRecord(x) ==
    populate_txt_from_iter(AKA, x.aka)
      \o populate_txt_from_iter(VM, [i \in DOMAIN x.vm |-> VmDisplay(x.vm[i])])
      \o <<VrAttr(x.vr)>>

\* CharacterString::new, which takes no more than 255 bytes
CharacterStringNew(bytes) ==
    IF Len(bytes) > MAX_CHARACTER_STRING_LENGTH
    THEN [ok |-> FALSE, err |-> <<"InvalidCharacterString">>]
    ELSE [ok |-> TRUE, val |-> bytes]

\* to_txt_record panics: one of its character-strings makes the expect on
\* CharacterString::new fail
ToTxtRecordPanics(x) ==
    \E strings \in {ToTxtRecord(x)} :
       \E i \in DOMAIN strings : ~CharacterStringNew(strings[i]).ok

\* the key of a character-string: the text before the first '='
AttrKey(cs) ==
    LET eq == FirstIndexIn(cs, {"="}) IN
    IF eq = 0 THEN cs ELSE Slice(cs, 1, eq - 1)

\* its value: the text after the first '=' ("key=" has the empty value),
\* None when there is no '='
AttrValue(cs) ==
    LET eq == FirstIndexIn(cs, {"="}) IN
    IF eq = 0 THEN None ELSE Some(Slice(cs, eq + 1, Len(cs)))

\* the keys of the record in emission order
RecordKeys(txt) == [i \in DOMAIN txt |-> AttrKey(txt[i])]

EmptyMap == [k \in {} |-> None]

\* the attribute map of txt[lo..hi]: of several character-strings with the
\* same key the first one is kept (@@ prefers its left operand)
RECURSIVE AttributesOf(_, _, _)
AttributesOf(txt, lo, hi) ==
    IF lo > hi THEN EmptyMap
    ELSE IF lo = hi THEN AttrKey(txt[lo]) :> AttrValue(txt[lo])
    ELSE AttributesOf(txt, lo, (lo + hi) \div 2)
           @@ AttributesOf(txt, (lo + hi) \div 2 + 1, hi)

\* TXT::attributes(): a map from key to optional value, filled with
\* entry(key).or_insert(value) in emission order
Attributes(txt) == AttributesOf(txt, 1, Len(txt))

\* the length of the run of ASCII digits that ends s
RECURSIVE TrailingDigits(_)
TrailingDigits(s) ==
    IF s = <<>> THEN 0
    ELSE IF s[Len(s)] \notin DigitSet THEN 0
    ELSE 1 + TrailingDigits(Slice(s, 1, Len(s) - 1))

\* split_off_number that splits off the trailing run of digits
split_off_trailing_number(s) ==
    LET n == TrailingDigits(s) IN
    IF n = 0 THEN [ok |-> TRUE, prefix |-> s, num |-> None]
    ELSE LET num == ParseU8(Slice(s, Len(s) - n + 1, Len(s))) IN
         IF ~num.ok THEN [ok |-> FALSE, kind |-> num.kind]
         ELSE [ok |-> TRUE, prefix |-> Slice(s, 1, Len(s) - n),
               num |-> Some(num.val)]

\* split_off_number: split the key at its first ASCII digit and parse
\* everything from there on as a u8
split_off_number(s) ==
    LET first_digit == FirstIndexIn(s, DigitSet) IN
    IF first_digit = 0 THEN [ok |-> TRUE, prefix |-> s, num |-> None]
    ELSE LET num == ParseU8(Slice(s, first_digit, Len(s))) IN
         IF ~num.ok THEN [ok |-> FALSE, kind |-> num.kind]
         ELSE [ok |-> TRUE, prefix |-> Slice(s, 1, first_digit - 1),
               num |-> Some(num.val)]

Lookup(map, k, default) == IF k \in DOMAIN map THEN map[k] ELSE default

\* the text of a key before its first ASCII digit
ListName(k) ==
    LET first_digit == FirstIndexIn(k, DigitSet) IN
    IF first_digit = 0 THEN k ELSE Slice(k, 1, first_digit - 1)

\* the drain step that validates the indices of aka and vm only and keeps
\* every other valued attribute aside
DrainStepKnownLists(attrs, k, acc) ==
    LET v == attrs[k] IN
    IF ~v.some
    THEN [ok |-> TRUE, acc |-> [acc EXCEPT !.novalue = @ \cup {k}]]
    ELSE IF ListName(k) \notin {AKA, VM}
    THEN [ok |-> TRUE, acc |-> [acc EXCEPT !.singleton = (k :> v.v) @@ @]]
    ELSE
      LET sp == split_off_number(k) IN
      IF ~sp.ok THEN [ok |-> FALSE, err |-> <<"ListAssembly", "KeySuffixNotU8">>]
      ELSE IF ~sp.num.some
      THEN [ok |-> TRUE, acc |-> [acc EXCEPT !.singleton = (k :> v.v) @@ @]]
      ELSE
        LET values == Lookup(acc.wip, sp.prefix, EmptyMap)
            already_exists == sp.num.v \in DOMAIN values
        IN
        IF already_exists
        THEN [ok |-> FALSE, err |-> <<"ListAssembly", "DuplicateIndex">>]
        ELSE [ok |-> TRUE,
              acc |-> [acc EXCEPT !.wip =
                         (sp.prefix :> ((sp.num.v :> v.v) @@ values)) @@ @]]

\* the drain step that inserts without looking at what insert returns: a
\* later value for an index replaces the earlier one
DrainStepOverwrite(attrs, k, acc) ==
    LET v == attrs[k] IN
    IF ~v.some
    THEN [ok |-> TRUE, acc |-> [acc EXCEPT !.novalue = @ \cup {k}]]
    ELSE
      LET sp == split_off_number(k) IN
      IF ~sp.ok THEN [ok |-> FALSE, err |-> <<"ListAssembly", "KeySuffixNotU8">>]
      ELSE IF ~sp.num.some
      THEN [ok |-> TRUE, acc |-> [acc EXCEPT !.singleton = (k :> v.v) @@ @]]
      ELSE
        LET values == Lookup(acc.wip, sp.prefix, EmptyMap) IN
        [ok |-> TRUE,
         acc |-> [acc EXCEPT !.wip =
                    (sp.prefix :> ((sp.num.v :> v.v) @@ values)) @@ @]]

\* the drain step that takes a missing value for the empty value instead
\* of setting the key aside
DrainStepValuelessAsEmpty(attrs, k, acc) ==
    LET v == IF attrs[k].some THEN attrs[k] ELSE Some(<<>>)
        sp == split_off_number(k)
    IN
    IF ~sp.ok THEN [ok |-> FALSE, err |-> <<"ListAssembly", "KeySuffixNotU8">>]
    ELSE IF ~sp.num.some
    THEN [ok |-> TRUE, acc |-> [acc EXCEPT !.singleton = (k :> v.v) @@ @]]
    ELSE
      LET values == Lookup(acc.wip, sp.prefix, EmptyMap)
          already_exists == sp.num.v \in DOMAIN values
      IN
      IF already_exists
      THEN [ok |-> FALSE, err |-> <<"ListAssembly", "DuplicateIndex">>]
      ELSE [ok |-> TRUE,
            acc |-> [acc EXCEPT !.wip =
                       (sp.prefix :> ((sp.num.v :> v.v) @@ values)) @@ @]]

\* one iteration of the drain loop of assemble_into_lists, for key k; acc
\* holds out_novalue, out_singleton and out_varlen_wip
DrainStep(attrs, k, acc) ==
    LET v == attrs[k] IN
    IF ~v.some
    THEN [ok |-> TRUE, acc |-> [acc EXCEPT !.novalue = @ \cup {k}]]
    ELSE
      LET sp == split_off_number(k) IN
      IF ~sp.ok THEN [ok |-> FALSE, err |-> <<"ListAssembly", "KeySuffixNotU8">>]
      ELSE IF ~sp.num.some
      THEN [ok |-> TRUE, acc |-> [acc EXCEPT !.singleton = (k :> v.v) @@ @]]
      ELSE
        LET values == Lookup(acc.wip, sp.prefix, EmptyMap)
            already_exists == sp.num.v \in DOMAIN values
        IN
        IF already_exists
        THEN [ok |-> FALSE, err |-> <<"ListAssembly", "DuplicateIndex">>]
        ELSE [ok |-> TRUE,
              acc |-> [acc EXCEPT !.wip =
                         (sp.prefix :> ((sp.num.v :> v.v) @@ values)) @@ @]]

\* the drain loop over order[lo..hi], left to right, stopping at the first
\* error (the range is halved only to keep the evaluation shallow)
RECURSIVE DrainRange(_, _, _, _, _)
DrainRange(attrs, order, lo, hi, acc) ==
    IF lo > hi THEN [ok |-> TRUE, acc |-> acc]
    ELSE IF lo = hi THEN DrainStep(attrs, order[lo], acc)
    ELSE LET mid == (lo + hi) \div 2
             left == DrainRange(attrs, order, lo, mid, acc)
         IN IF ~left.ok THEN left
            ELSE DrainRange(attrs, order, mid + 1, hi, left.acc)

\* the members of a set of u8 between lo and hi, in increasing order
RECURSIVE Ascending(_, _, _)
Ascending(set, lo, hi) ==
    IF \A i \in set : i < lo \/ i > hi THEN <<>>
    ELSE IF lo = hi THEN <<lo>>
    ELSE Ascending(set, lo, (lo + hi) \div 2)
           \o Ascending(set, (lo + hi) \div 2 + 1, hi)

\* the indices of a BTreeMap<u8, String> in iteration (increasing) order
SortedIndices(bt) == Ascending(DOMAIN bt, 0, U8_MAX)

\* A variant of Collapse that pushes every value without comparing its
\* index with the length so far.
CollapseUnchecked(bt) ==
    LET idx == SortedIndices(bt) IN
    [ok |-> TRUE, vec |-> [j \in DOMAIN idx |-> bt[idx[j]]]]

\* the collapse of one BTreeMap<u8, String> into a Vec: the indices are
\* visited in increasing order and each must equal the length so far
Collapse(bt) ==
    LET idx == SortedIndices(bt) IN
    IF \E j \in DOMAIN idx : idx[j] # j - 1 THEN [ok |-> FALSE]
    ELSE [ok |-> TRUE, vec |-> [j \in DOMAIN idx |-> bt[idx[j]]]]

\* assemble_into_lists: attrs drained in the order the hash map yields
\* (order), then every prefix's indices collapsed into a dense list
assemble_into_lists(attrs, order) ==
    LET drained == DrainRange(attrs, order, 1, Len(order),
                     [novalue |-> {}, singleton |-> EmptyMap, wip |-> EmptyMap])
    IN
    IF ~drained.ok THEN drained
    ELSE
      LET wip == drained.acc.wip IN
      IF \E k \in DOMAIN wip : ~Collapse(wip[k]).ok
      THEN [ok |-> FALSE, err |-> <<"ListAssembly", "SkippedIndex">>]
      ELSE [ok |-> TRUE,
            novalue |-> drained.acc.novalue,
            singleton |-> drained.acc.singleton,
            varlen |-> [k \in DOMAIN wip |-> Collapse(wip[k]).vec]]

\* what a call yields when it panics
Panic == [panic |-> TRUE]

\* no size check at all
UnlimitedAttrs(attrs) == FALSE

\* the size check with > in the place of >=
MoreThanMaxAttrs(attrs) == Cardinality(DOMAIN attrs) > U8_MAX

\* attrs.len() >= usize::from(u8::MAX)
TooManyAttrs(attrs) == Cardinality(DOMAIN attrs) >= U8_MAX

\* decode that unwraps the result of the base64 decoder
TryFromTxtUnwrapVr(txt, order) ==
    LET attrs == Attributes(txt) IN
    IF TooManyAttrs(attrs)
    THEN [ok |-> FALSE, err |-> <<"TooManyAttrs">>]
    ELSE
      LET lists == assemble_into_lists(attrs, order) IN
      IF ~lists.ok THEN lists
      ELSE
        LET aka == Lookup(lists.varlen, AKA, <<>>)
            vm == Lookup(lists.varlen, VM, <<>>)
            vr == b64_dec(Lookup(lists.singleton, VR, <<>>))
        IN
        IF \E i \in DOMAIN aka : ~IsUri(aka[i])
        THEN [ok |-> FALSE, err |-> <<"AkaParseErr">>]
        ELSE IF \E i \in DOMAIN vm : ~VmTryFrom(vm[i]).ok
        THEN [ok |-> FALSE, err |-> <<"VmParseErr">>]
        ELSE IF ~vr.ok
        THEN Panic
        ELSE [ok |-> TRUE,
              val |-> [aka |-> aka,
                       vm |-> [i \in DOMAIN vm |-> VmTryFrom(vm[i]).val],
                       vr |-> [i \in DOMAIN vr.bytes |->
                                 from_bits_truncate(vr.bytes[i])]]]

\* decode that drops the aliases and the verification methods that do not
\* parse, and takes a vr that does not parse for the empty vr
TryFromTxtLenient(txt, order) ==
    LET attrs == Attributes(txt) IN
    IF TooManyAttrs(attrs)
    THEN [ok |-> FALSE, err |-> <<"TooManyAttrs">>]
    ELSE
      LET lists == assemble_into_lists(attrs, order) IN
      IF ~lists.ok THEN lists
      ELSE
        LET aka == SelectSeq(Lookup(lists.varlen, AKA, <<>>), IsUri)
            Parses(s) == VmTryFrom(s).ok
            vm == SelectSeq(Lookup(lists.varlen, VM, <<>>), Parses)
            vr == b64_dec(Lookup(lists.singleton, VR, <<>>))
            bytes == IF vr.ok THEN vr.bytes ELSE <<>>
        IN
        [ok |-> TRUE,
         val |-> [aka |-> aka,
                  vm |-> [i \in DOMAIN vm |-> VmTryFrom(vm[i]).val],
                  vr |-> [i \in DOMAIN bytes |-> from_bits_truncate(bytes[i])]]]

\* TryFrom<&TXT> for DidDocumentContents
TryFromTxt(txt, order) ==
    LET attrs == Attributes(txt) IN
    IF TooManyAttrs(attrs)
    THEN [ok |-> FALSE, err |-> <<"TooManyAttrs">>]
    ELSE
      LET lists == assemble_into_lists(attrs, order) IN
      IF ~lists.ok THEN lists
      ELSE
        LET aka == Lookup(lists.varlen, AKA, <<>>)
            vm == Lookup(lists.varlen, VM, <<>>)
            vr == b64_dec(Lookup(lists.singleton, VR, <<>>))
        IN
        IF \E i \in DOMAIN aka : ~IsUri(aka[i])
        THEN [ok |-> FALSE, err |-> <<"AkaParseErr">>]
        ELSE IF \E i \in DOMAIN vm : ~VmTryFrom(vm[i]).ok
        THEN [ok |-> FALSE, err |-> <<"VmParseErr">>]
        ELSE IF ~vr.ok
        THEN [ok |-> FALSE, err |-> <<"VrParseErr">>]
        ELSE [ok |-> TRUE,
              val |-> [aka |-> aka,
                       vm |-> [i \in DOMAIN vm |-> VmTryFrom(vm[i]).val],
                       vr |-> [i \in DOMAIN vr.bytes |->
                                 from_bits_truncate(vr.bytes[i])]]]


(***************************************************************************)
(* Inputs.  Texts the enumerated documents and records are made of.        *)
(***************************************************************************)
\* "at://x" and "at://y"
UriA == <<"a", "t", ":", "/", "/", "x">>
UriB == <<"a", "t", ":", "/", "/", "y">>

\* "did:key:zA" and "did:web:e"
DidKeyText == <<"d", "i", "d", ":", "k", "e", "y", ":", "z", "A">>
DidWebText == <<"d", "i", "d", ":", "w", "e", "b", ":", "e">>

VmKeyA == VmTryFrom(DidKeyText).val
VmWebB == VmTryFrom(DidWebText).val
\* a did:key wrapped in the variant that is documented for other methods
VmMisTagged == [tag |-> "DidUrl", did |-> DidFromStr(DidKeyText).val]

UriPool == {UriA, UriB}
VmPool == {VmKeyA, VmWebB}
\* Authentication; Assertion | KeyAgreement; Authentication with bit 7 set
VrPool == {Authentication, Assertion + KeyAgreement, 129}

\* every sequence over S of length at most n
RECURSIVE SeqsUpTo(_, _)
SeqsUpTo(S, n) ==
    IF n = 0 THEN {<<>>}
    ELSE LET shorter == SeqsUpTo(S, n - 1) IN
         shorter \cup {Append(s, e) : s \in {t \in shorter : Len(t) = n - 1}, e \in S}

Repeat(e, n) == [i \in 1..n |-> e]

\* lengths at which an index gets a second digit, and at which the record
\* reaches the decoder's attribute limit
LongLens == {10, 11, U8_MAX - 2, U8_MAX - 1, U8_MAX + 2}

SmallContents ==
    [aka : SeqsUpTo(UriPool, MaxList),
     vm : SeqsUpTo(VmPool, MaxList),
     vr : SeqsUpTo(VrPool, MaxList)]

LongContents == {[aka |-> Repeat(UriA, n), vm |-> <<>>, vr |-> <<>>] : n \in LongLens}

\* documents that hold the mis-tagged verification method
MisTaggedContents ==
    {[aka |-> <<>>, vm |-> <<VmMisTagged>>, vr |-> <<Authentication>>],
     [aka |-> <<UriA>>, vm |-> <<VmWebB, VmMisTagged>>,
      vr |-> <<Authentication, Assertion + KeyAgreement>>]}

\* documents at the limit of a character-string: an alias that fills it
\* with "aka0=" and one a character longer, and as many verification
\* methods as the encoded vr holds with "vr=" and one more
OversizeContents ==
    {[aka |-> <<UriA \o Repeat("x", n - Len(AKA) - 2 - Len(UriA))>>,
      vm |-> <<>>, vr |-> <<>>] :
        n \in {MAX_CHARACTER_STRING_LENGTH, MAX_CHARACTER_STRING_LENGTH + 1}}
      \cup {[aka |-> <<>>, vm |-> Repeat(VmKeyA, n), vr |-> Repeat(Authentication, n)] :
               n \in {189, 190}}

Contents ==
    SmallContents \cup LongContents \cup MisTaggedContents \cup OversizeContents

\* the character-strings the enumerated wire records are drawn from
AttrPool == <<
    \* aka0=at://x
    <<"a", "k", "a", "0", "=", "a", "t", ":", "/", "/", "x">>,
    \* aka1=at://y
    <<"a", "k", "a", "1", "=", "a", "t", ":", "/", "/", "y">>,
    \* vm0=did:key:zA
    <<"v", "m", "0", "=", "d", "i", "d", ":", "k", "e", "y", ":", "z", "A">>,
    \* vm0=did:web:e
    <<"v", "m", "0", "=", "d", "i", "d", ":", "w", "e", "b", ":", "e">>,
    \* vm1=did:web:e
    <<"v", "m", "1", "=", "d", "i", "d", ":", "w", "e", "b", ":", "e">>,
    \* vm2=did:key:zA
    <<"v", "m", "2", "=", "d", "i", "d", ":", "k", "e", "y", ":", "z", "A">>,
    \* vm00=did:web:e
    <<"v", "m", "0", "0", "=", "d", "i", "d", ":", "w", "e", "b", ":", "e">>,
    \* vm256=did:web:e
    <<"v", "m", "2", "5", "6", "=", "d", "i", "d", ":", "w", "e", "b", ":", "e">>,
    \* vr=AQ
    <<"v", "r", "=", "A", "Q">>,
    \* vr=gQ
    <<"v", "r", "=", "g", "Q">>,
    \* vr=AQY
    <<"v", "r", "=", "A", "Q", "Y">>,
    \* v1x=at://x
    <<"v", "1", "x", "=", "a", "t", ":", "/", "/", "x">>,
    \* 1=at://x
    <<"1", "=", "a", "t", ":", "/", "/", "x">> >>

\* every subset of S with at most n elements
RECURSIVE SubsetsUpTo(_, _)
SubsetsUpTo(S, n) ==
    IF n = 0 THEN {{}}
    ELSE LET smaller == SubsetsUpTo(S, n - 1) IN
         smaller \cup {T \cup {e} : T \in smaller, e \in S}

Reverse(s) == [i \in 1..Len(s) |-> s[Len(s) + 1 - i]]

\* the pool's character-strings with the given positions, in pool order
RecordOf(positions) ==
    LET idx == Ascending(positions, 1, Len(AttrPool)) IN
    [j \in 1..Len(idx) |-> AttrPool[idx[j]]]

\* one record per value of a vr byte: "vr=" and the base64url of that byte
VrByteRecords == {<<VrAttr(<<b>>)>> : b \in 0..U8_MAX}

\* n character-strings akaI=at://x, for I from first on
ManyAliases(first, n) ==
    [i \in 1..n |-> AKA \o Dec(first + i - 1) \o <<"=">> \o UriA]

\* records at the limit of the attribute count: 254 and 255 aliases from
\* aka0 and from aka1, 254 aliases and aka0 twice more, 255 aliases and v1x
CrowdedRecords ==
    {ManyAliases(0, U8_MAX - 1), ManyAliases(0, U8_MAX),
     ManyAliases(1, U8_MAX - 1), ManyAliases(1, U8_MAX),
     ManyAliases(0, U8_MAX - 1) \o <<AttrPool[1], AttrPool[1]>>,
     ManyAliases(0, U8_MAX) \o <<AttrPool[12]>>}

\* character-strings whose value does not parse: aka0=:x, vm0=at://x, vr=A
BadAka == <<"a", "k", "a", "0", "=", ":", "x">>
BadVm == <<"v", "m", "0", "=", "a", "t", ":", "/", "/", "x">>
BadVr == <<"v", "r", "=", "A">>

\* a character-string without '=': the key aka0 without a value
Valueless == <<"a", "k", "a", "0">>

\* records with one, two or three values that do not parse, and one with
\* a valueless attribute
FaultyRecords ==
    {<<BadAka>>, <<BadVm>>, <<BadVr>>, <<BadVr, BadVm>>, <<BadVm, BadAka>>,
     <<BadVr, BadVm, BadAka>>, <<AttrPool[1], BadVr>>, <<Valueless>>}

\* character-strings under a list name the protocol does not use, a
\* singleton other than vr, and character-strings without a value:
\* foo0=x, foo00=y, foo1=x, foo256=x, foo=x, bar, vm256
Foo0 == <<"f", "o", "o", "0", "=", "x">>
Foo00 == <<"f", "o", "o", "0", "0", "=", "y">>
Foo1 == <<"f", "o", "o", "1", "=", "x">>
Foo256 == <<"f", "o", "o", "2", "5", "6", "=", "x">>
FooSingle == <<"f", "o", "o", "=", "x">>
BarValueless == <<"b", "a", "r">>
Vm256Valueless == <<"v", "m", "2", "5", "6">>

\* vm01=did:key:zA, and vm0=:x whose value is not a URI
Vm01 == <<"v", "m", "0", "1", "=", "d", "i", "d", ":", "k", "e", "y", ":", "z", "A">>
NotUriVm == <<"v", "m", "0", "=", ":", "x">>

\* records with one fault under the list name foo, alone and next to the
\* protocol's own attributes
ForeignFaults ==
    {<<Foo1>>, <<Foo256>>, <<Foo0, Foo00>>,
     <<AttrPool[1], Foo1, AttrPool[9]>>,
     <<AttrPool[1], Foo256, AttrPool[9]>>,
     <<AttrPool[1], Foo0, Foo00, AttrPool[9]>>}

\* records with attributes the protocol does not interpret: a dense list
\* foo, the singleton foo, valueless keys; alone, next to the protocol's
\* own attributes, and a valueless aka0 ahead of aka0=at://x
Uninterpreted ==
    {<<Foo0, Foo1>>, <<FooSingle>>, <<BarValueless>>, <<Vm256Valueless>>,
     <<AttrPool[1], AttrPool[3], AttrPool[9], BarValueless>>,
     <<AttrPool[1], AttrPool[3], AttrPool[9], FooSingle>>,
     <<AttrPool[1], AttrPool[3], AttrPool[9], Foo0, Foo1>>,
     <<Foo0, AttrPool[1], BarValueless, AttrPool[3], FooSingle, AttrPool[9],
       Foo1, Vm256Valueless>>,
     <<Foo0, BadVr, BarValueless>>,
     <<AttrPool[1], AttrPool[5], FooSingle>>,
     <<Valueless, AttrPool[1]>>, <<Valueless, AttrPool[1], AttrPool[2]>>}

ForeignRecords == ForeignFaults \cup Uninterpreted

\* records in which two keys name one index of vm, and records with a
\* verification method that is not a URI
MoreFaultyRecords ==
    {<<AttrPool[4], AttrPool[5], Vm01>>, <<Vm01, AttrPool[5]>>,
     <<NotUriVm>>, <<BadVr, NotUriVm>>, <<AttrPool[1], BadVm, AttrPool[9]>>}

WireRecords ==
    LET picked == {RecordOf(P) : P \in SubsetsUpTo(DOMAIN AttrPool, MaxAttrs)} IN
    picked \cup {Reverse(r) : r \in picked} \cup VrByteRecords
      \cup CrowdedRecords \cup FaultyRecords \cup ForeignRecords
      \cup MoreFaultyRecords

\* the distinct keys of txt[lo..hi], each at its first position
RECURSIVE FirstKeysOf(_, _, _)
FirstKeysOf(txt, lo, hi) ==
    IF lo > hi THEN <<>>
    ELSE IF lo = hi THEN <<AttrKey(txt[lo])>>
    ELSE LET left == FirstKeysOf(txt, lo, (lo + hi) \div 2)
             right == FirstKeysOf(txt, (lo + hi) \div 2 + 1, hi)
             seen == Range(left)
             Fresh(k) == k \notin seen
         IN left \o SelectSeq(right, Fresh)

\* the keys of the attribute map, in emission order
FirstKeys(txt) == FirstKeysOf(txt, 1, Len(txt))

\* the orders in which HashMap::drain may yield the attributes: every
\* order for a small map, emission order and its reverse for a large one
Orders(txt) ==
    LET keys == FirstKeys(txt)
        n == Len(keys)
    IN IF n <= MaxPerm
       THEN {[i \in 1..n |-> keys[p[i]]] :
                p \in {q \in [1..n -> 1..n] : \A i, j \in 1..n : q[i] = q[j] => i = j}}
       ELSE {keys, Reverse(keys)}

(***************************************************************************)
(* Keys.  The ed25519 test vectors of the repository (RFC 8032, 7.1): a    *)
(* signing key is its 32 secret bytes, a public key its 32 public bytes.   *)
(***************************************************************************)
ED25519_EXAMPLES == <<
    \* Test1
    [private |->
         <<157, 97, 177, 157, 239, 253, 90, 96,
           186, 132, 74, 244, 146, 236, 44, 196,
           68, 73, 197, 105, 123, 50, 105, 25,
           112, 59, 172, 3, 28, 174, 127, 96>>,
     public |->
         <<215, 90, 152, 1, 130, 177, 10, 183,
           213, 75, 254, 211, 201, 100, 7, 58,
           14, 225, 114, 243, 218, 166, 35, 37,
           175, 2, 26, 104, 247, 7, 81, 26>>],
    \* Test2
    [private |->
         <<76, 205, 8, 155, 40, 255, 150, 218,
           157, 182, 195, 70, 236, 17, 78, 15,
           91, 138, 49, 159, 53, 171, 166, 36,
           218, 140, 246, 237, 79, 184, 166, 251>>,
     public |->
         <<61, 64, 23, 195, 232, 67, 137, 90,
           146, 183, 10, 167, 77, 27, 126, 188,
           156, 152, 44, 207, 46, 196, 150, 140,
           192, 205, 85, 241, 42, 244, 102, 12>>] >>

SigningKeys == {ED25519_EXAMPLES[i].private : i \in DOMAIN ED25519_EXAMPLES}
PublicKeys == {ED25519_EXAMPLES[i].public : i \in DOMAIN ED25519_EXAMPLES}

\* SigningKey::verifying_key (also Keypair::from_secret_key(..).public_key())
verifying_key(signing_key) ==
    (CHOOSE e \in Range(ED25519_EXAMPLES) : e.private = signing_key).public

\* the z-base-32 alphabet
Z32Alphabet == <<"y", "b", "n", "d", "r", "f", "g", "8", "e", "j", "k", "m", "c", "p", "q", "x", "o", "t", "1", "u", "w", "i", "s", "z", "a", "3", "4", "5", "h", "7", "6", "9">>

\* bit k (from 0, most significant first) of a byte string, 0 past its end
BitAt(bytes, k) ==
    IF k >= 8 * Len(bytes) THEN 0
    ELSE (bytes[(k \div 8) + 1] \div (2 ^ (7 - (k % 8)))) % 2

\* PublicKey::to_z32: base32 without padding over the z-base-32 alphabet,
\* one character per 5 bits, the last group filled with zero bits
to_z32(bytes) ==
    [j \in 1..((8 * Len(bytes) + 4) \div 5) |->
        Z32Alphabet[1 + 16 * BitAt(bytes, 5 * (j - 1))
                      + 8 * BitAt(bytes, 5 * (j - 1) + 1)
                      + 4 * BitAt(bytes, 5 * (j - 1) + 2)
                      + 2 * BitAt(bytes, 5 * (j - 1) + 3)
                      + BitAt(bytes, 5 * (j - 1) + 4)]]

(***************************************************************************)
(* Signed packets.  A resource record is [name, rtype, rdata]; rdata is    *)
(* the list of character-strings of a TXT record and empty for the other   *)
(* types.  A signed packet is [public_key, timestamp, records]: only       *)
(* validly signed packets exist, so the signature is not represented.      *)
(***************************************************************************)
TXT_DOMAIN == <<"_", "d", "i", "d", "_", "p", "k", "a", "r", "r", ".">>

\* the z-base-32 text of each key in use, computed once
Z32OfKeys == [k \in PublicKeys |-> to_z32(k)]

\* PublicKey::to_z32, of a key in use
public_key_to_z32(k) == Z32OfKeys[k]

\* another name, for records that are not the did:pkarr record
OTHER_DOMAIN == <<"_", "f", "o", "o", ".">>

\* the name of a record inside a packet: relative names are completed with
\* the z-base-32 public key as their last label
normalize_name(origin, name) ==
    LET stripped == IF name # <<>> /\ name[Len(name)] = "."
                    THEN Slice(name, 1, Len(name) - 1) ELSE name
        dots == {i \in DOMAIN stripped : stripped[i] = "."}
        lastdot == IF dots = {} THEN 0
                   ELSE CHOOSE i \in dots : \A j \in dots : j <= i
        last == Slice(stripped, lastdot + 1, Len(stripped))
    IN IF last = origin THEN stripped
       ELSE IF last = <<"@">> \/ last = <<>> THEN origin
       ELSE stripped \o <<".">> \o origin

\* the most bytes the DNS packet of a signed packet may take: a limit of the
\* pkarr crate, whose sign fails with PacketTooLarge beyond it
MAX_PACKET_BYTES == 1000
\* the bytes of a DNS header, and of a record's type, class, ttl and length
DnsHeaderBytes == 12
RrFixedBytes == 10

RECURSIVE SumLens(_, _, _)
\* the bytes of the character-strings lo..hi, each behind its length byte
SumLens(strings, lo, hi) ==
    IF lo > hi THEN 0
    ELSE IF lo = hi THEN 1 + Len(strings[lo])
    ELSE LET mid == (lo + hi) \div 2
         IN SumLens(strings, lo, mid) + SumLens(strings, mid + 1, hi)

\* the bytes of one record: its name as length-prefixed labels with the
\* root label, the fixed fields, and the record data
RrBytes(rr) ==
    (Len(rr.name) + 2) + RrFixedBytes
    + (IF rr.rtype = "TXT"
       THEN (IF rr.rdata = <<>> THEN 1 ELSE SumLens(rr.rdata, 1, Len(rr.rdata)))
       ELSE 4)

RECURSIVE PacketBytes(_)
PacketBytes(records) ==
    IF records = <<>> THEN DnsHeaderBytes
    ELSE RrBytes(Head(records)) + PacketBytes(Tail(records))

Err(e) == [ok |-> FALSE, err |-> e]

Ok(v) == [ok |-> TRUE, val |-> v]

\* SignedPacket::builder().timestamp(ts).txt(name, txt, 0).sign(&kp); the
\* records are bound once
Sign(name, rdata, ts, signing_key) ==
    LET public_key == verifying_key(signing_key)
    IN CHOOSE r \in {IF PacketBytes(records) > MAX_PACKET_BYTES
                     THEN Err(<<"ToPkarr", "PacketTooLarge">>)
                     ELSE [ok |-> TRUE,
                           val |-> [public_key |-> public_key, timestamp |-> ts,
                                    records |-> records]] :
                        records \in {<<[name |-> normalize_name(public_key_to_z32(public_key), name),
                                        rtype |-> "TXT", rdata |-> rdata]>>}} : TRUE

\* to_pkarr_packet with the comparison of the keys left out
ToPkarrPacketUnchecked(d, signing_key, ts) ==
    Sign(TXT_DOMAIN, ToTxtRecord(d.contents), ts, signing_key)

\* DidPkarrDocument::to_pkarr_packet
ToPkarrPacket(d, signing_key, ts) ==
    IF verifying_key(signing_key) # d.id
    THEN Err(<<"KeyMismatch">>)
    ELSE IF ToTxtRecordPanics(d.contents) THEN Panic
    ELSE Sign(TXT_DOMAIN, ToTxtRecord(d.contents), ts, signing_key)

\* SignedPacket::resource_records
resource_records(p, name) ==
    LET wanted == normalize_name(public_key_to_z32(p.public_key), name)
    IN SelectSeq(p.records, LAMBDA rr : rr.name = wanted)

\* the record TryFrom<SignedPacket> hands to the decoder, if it gets there
TxtToDecode(p) ==
    LET it == resource_records(p, TXT_DOMAIN)
    IN IF Len(it) = 1 /\ it[1].rtype = "TXT" THEN it[1].rdata ELSE <<>>

\* try_from that takes the id from the first test vector, not the packet
TryFromSignedPacketFixedId(p, order) ==
    LET id == ED25519_EXAMPLES[1].public
        it == resource_records(p, TXT_DOMAIN)
    IN IF it = <<>> THEN Err(<<"NoDidPkarrTxtRecord">>)
       ELSE IF it[1].rtype # "TXT" THEN Err(<<"NoDidPkarrTxtRecord">>)
       ELSE IF Len(it) > 1 THEN Err(<<"MultipleDidPkarrRecords">>)
       ELSE CHOOSE r \in {IF c.ok
                          THEN [ok |-> TRUE, val |-> [id |-> id, contents |-> c.val]]
                          ELSE Err(<<"FromTxtRecordErr">> \o c.err) :
                             c \in {TryFromTxt(t, order) : t \in {it[1].rdata}}} : TRUE

\* DidPkarrDocument::try_from(SignedPacket); the record and the decoder's
\* result are bound once each
TryFromSignedPacket(p, order) ==
    LET id == p.public_key
        it == resource_records(p, TXT_DOMAIN)
    IN IF it = <<>> THEN Err(<<"NoDidPkarrTxtRecord">>)
       ELSE IF it[1].rtype # "TXT" THEN Err(<<"NoDidPkarrTxtRecord">>)
       ELSE IF Len(it) > 1 THEN Err(<<"MultipleDidPkarrRecords">>)
       ELSE CHOOSE r \in {IF c.ok
                          THEN [ok |-> TRUE, val |-> [id |-> id, contents |-> c.val]]
                          ELSE Err(<<"FromTxtRecordErr">> \o c.err) :
                             c \in {TryFromTxt(t, order) : t \in {it[1].rdata}}} : TRUE

\* "did:pkarr:"
DidPkarrPrefix == <<"d", "i", "d", ":", "p", "k", "a", "r", "r", ":">>

\* DidPkarrDocument::did
Did(d) ==
    LET r == DidFromStr(DidPkarrPrefix \o public_key_to_z32(d.id))
    IN IF r.ok THEN r.val ELSE Panic

\* DidPkarrDocument::verification_methods, collected; debug_assertions
\* tells whether the build keeps debug_assert_eq!
VerificationMethods(d, debug_assertions) ==
    LET vm == d.contents.vm
        vr == d.contents.vr
        n == IF Len(vm) <= Len(vr) THEN Len(vm) ELSE Len(vr)
    IN IF debug_assertions /\ Len(vm) # Len(vr) THEN Panic
       ELSE [i \in 1..n |-> <<vm[i], vr[i]>>]

(***************************************************************************)
(* The CLI's DidDocument: [id, also_known_as, verification_method,         *)
(* authentication, assertion], with each verification method either a      *)
(* DidKey [multicodec, pubkey] or an external DidUrl, and the two sets     *)
(* holding indices into verification_method.                               *)
(***************************************************************************)
\* the base58-btc alphabet
Base58Alphabet == <<
    "1", "2", "3", "4", "5", "6", "7", "8", "9", "A",
    "B", "C", "D", "E", "F", "G", "H", "J", "K", "L",
    "M", "N", "P", "Q", "R", "S", "T", "U", "V", "W",
    "X", "Y", "Z", "a", "b", "c", "d", "e", "f", "g",
    "h", "i", "j", "k", "m", "n", "o", "p", "q", "r",
    "s", "t", "u", "v", "w", "x", "y", "z">>

\* the digit a base58 character stands for
Base58Value(c) == CHOOSE i \in 0..57 : Base58Alphabet[i + 1] = c

\* the number a text of base58 digits writes, most significant first
RECURSIVE Base58Number(_)
Base58Number(text) ==
    IF text = <<>> THEN 0
    ELSE Base58Number(Slice(text, 1, Len(text) - 1)) * 58
         + Base58Value(text[Len(text)])

\* the bytes of n, most significant first, none for 0
RECURSIVE BigEndianBytes(_)
BigEndianBytes(n) ==
    IF n = 0 THEN <<>> ELSE Append(BigEndianBytes(n \div 256), n % 256)

\* bs58::decode(text).into_vec(): each leading '1' is a zero byte, the rest
\* is a number in base 58
bs58_decode(text) ==
    IF \E i \in DOMAIN text : \A j \in DOMAIN Base58Alphabet :
          Base58Alphabet[j] # text[i]
    THEN Err(<<"NotBase58Btc">>)
    ELSE LET ones == IF \A i \in DOMAIN text : text[i] = "1" THEN Len(text)
                     ELSE FirstIndexIn(text, {c \in Range(text) : c # "1"}) - 1
         IN Ok([i \in 1..ones |-> 0]
               \o BigEndianBytes(Base58Number(Slice(text, ones + 1, Len(text)))))

\* unsigned_varint::decode::u32: seven bits a byte, least significant
\* first, up to the first byte without the high bit; at most five bytes,
\* and a last byte of 0 after another byte is not minimal
varint_decode_u32(bytes) ==
    LET last == FirstIndexIn(bytes, 0..127)
        value[i \in 0..5] ==
            IF i = 0 THEN 0
            ELSE value[i - 1] + (bytes[i] % 128) * 128 ^ (i - 1)
    IN IF last = 0 /\ Len(bytes) < 5 THEN Err(<<"Varint", "Insufficient">>)
       ELSE IF last = 0 \/ last > 5 \/ (last = 5 /\ bytes[5] > 15)
            THEN Err(<<"Varint", "Overflow">>)
       ELSE IF bytes[last] = 0 /\ last > 1 THEN Err(<<"Varint", "NotMinimal">>)
       ELSE Ok([value |-> value[last],
                rest |-> Slice(bytes, last + 1, Len(bytes))])

\* DidKey::PREFIX
DidKeyPrefix == <<"d", "i", "d", ":", "k", "e", "y", ":", "z">>

\* FromStr for DidKey
DidKeyFromStr(s) ==
    IF Len(s) < Len(DidKeyPrefix) \/ Slice(s, 1, Len(DidKeyPrefix)) # DidKeyPrefix
    THEN Err(<<"WrongPrefix">>)
    ELSE LET decoded == bs58_decode(Slice(s, Len(DidKeyPrefix) + 1, Len(s))) IN
         IF ~decoded.ok THEN decoded
         ELSE LET r == varint_decode_u32(decoded.val) IN
              IF ~r.ok THEN r
              ELSE Ok([multicodec |-> r.val.value, pubkey |-> r.val.rest])

U16_MAX == 65535

\* did_url.rs parse_method_specific_id: the range of the method-specific
\* id in the text, as 0-based start and end
DidUrlParseMethodSpecificId(value) ==
    IF Len(value) > U16_MAX THEN Err(<<"TooLong">>)
    ELSE IF Len(value) < 4 \/ Slice(value, 1, 4) # DID_PREFIX \o <<":">>
    THEN Err(<<"MissingPrefix">>)
    ELSE LET suffix == Slice(value, 5, Len(value))
             colon == FirstIndexIn(suffix, {":"})
         IN IF colon = 0 \/ colon = 1 THEN Err(<<"MissingMethod">>)
            ELSE LET msid == Slice(suffix, colon + 1, Len(suffix))
                     start == Len(value) - Len(msid)
                     hash == FirstIndexIn(msid, {"#"})
                     end == IF hash = 0 THEN Len(value) ELSE (hash - 1) + start
                     bad == FirstIndexIn(msid, {"/", "?"})
                     frag == Slice(value, end + 1, Len(value))
                 IN IF msid = <<>> \/ msid[1] = "#"
                    THEN Err(<<"EmptyMethodSpecificId">>)
                    ELSE IF bad # 0 /\ msid[bad] = "/" THEN Err(<<"ContainsPath">>)
                    ELSE IF bad # 0 THEN Err(<<"ContainsQuery">>)
                    ELSE IF Len(frag) = 1
                    THEN Err(<<"CannotEndWithFragmentSpecifier">>)
                    ELSE IF Len(frag) > 1 /\ "#" \in Range(Slice(frag, 2, Len(frag)))
                    THEN Err(<<"MultipleFragmentSpecifiers">>)
                    ELSE Ok(<<start, end>>)

\* TryFrom<fluent_uri::Uri<String>> for DidUrl
DidUrlTryFrom(uri) ==
    LET r == DidUrlParseMethodSpecificId(uri) IN
    IF r.ok THEN Ok([uri |-> uri, method_specific_id |-> r.val]) ELSE r

\* did.rs parse_method_specific_id and TryFrom<String> for Did, for a text
\* that is a URI: the 0-based start of the method-specific id
DidCommonTryFrom(value) ==
    IF Len(value) > U16_MAX THEN Err(<<"TooLong">>)
    ELSE IF Len(value) < 4 \/ Slice(value, 1, 4) # DID_PREFIX \o <<":">>
    THEN Err(<<"MissingPrefix">>)
    ELSE LET suffix == Slice(value, 5, Len(value))
             colon == FirstIndexIn(suffix, {":"})
         IN IF colon = 0 \/ colon = 1 THEN Err(<<"MissingMethod">>)
            ELSE IF colon = Len(suffix) THEN Err(<<"EmptyMethodSpecificId">>)
            ELSE IF "?" \in Range(value) THEN Err(<<"ContainsQuery">>)
            ELSE IF "#" \in Range(value) THEN Err(<<"ContainsFragment">>)
            ELSE Ok([uri |-> value, method_specific_id |-> 4 + colon])

\* From<did_pkarr::doc::VerificationMethod> for the CLI's VerificationMethod
CliVerificationMethodFrom(value) ==
    IF value.tag = "DidKey"
    THEN LET r == DidKeyFromStr(value.did.uri) IN
         IF r.ok THEN [tag |-> "DidKey", key |-> r.val] ELSE Panic
    ELSE LET r == DidUrlTryFrom(value.did.uri) IN
         IF r.ok THEN [tag |-> "External", url |-> r.val] ELSE Panic

\* From<DidPkarrDocument> for DidDocument; debug_assertions tells whether
\* the build keeps the debug_assert_eq! of verification_methods().  The
\* indices of authentication and assertion count from 0.
DidDocumentFrom(pkarr_doc, debug_assertions) ==
    LET d == Did(pkarr_doc)
        vm == pkarr_doc.contents.vm
        vr == pkarr_doc.contents.vr
    IN IF d = Panic THEN Panic
       ELSE IF ~DidCommonTryFrom(d.uri).ok THEN Panic
       ELSE IF debug_assertions /\ Len(vm) # Len(vr) THEN Panic
       ELSE LET pairs == VerificationMethods(pkarr_doc, debug_assertions)
                methods == [i \in DOMAIN pairs |->
                               CliVerificationMethodFrom(pairs[i][1])]
            IN IF \E i \in DOMAIN methods : methods[i] = Panic THEN Panic
               ELSE [id |-> DidCommonTryFrom(d.uri).val,
                     also_known_as |-> pkarr_doc.contents.aka,
                     verification_method |-> methods,
                     authentication |->
                        {i - 1 : i \in {j \in DOMAIN pairs :
                                          Contains(pairs[j][2], Authentication)}},
                     assertion |->
                        {i - 1 : i \in {j \in DOMAIN pairs :
                                          Contains(pairs[j][2], Assertion)}}]

(***************************************************************************)
(* The builder: [pubkey, also_known_as, verification_methods], an ordered  *)
(* set of URIs and an ordered map from verification method to              *)
(* relationship.                                                           *)
(***************************************************************************)
\* DidPkarrDocumentBuilder::new
BuilderNew(public_key) ==
    [pubkey |-> public_key, also_known_as |-> {},
     verification_methods |-> <<>>]

\* the order of the verification methods in the map: by variant, then by text
VmLess(a, b) ==
    IF a.tag # b.tag THEN a.tag = "DidKey"
    ELSE StrLess(a.did.uri, b.did.uri)

RECURSIVE UrisInOrder(_)
\* BTreeSet<Uri<String>>::into_iter
UrisInOrder(set) ==
    IF set = {} THEN <<>>
    ELSE LET m == CHOOSE e \in set : \A f \in set \ {e} : StrLess(e, f)
         IN <<m>> \o UrisInOrder(set \ {m})

RECURSIVE VmsInOrder(_)
\* BTreeMap<VerificationMethod, _>::into_keys
VmsInOrder(set) ==
    IF set = {} THEN <<>>
    ELSE LET m == CHOOSE e \in set : \A f \in set \ {e} : VmLess(e, f)
         IN <<m>> \o VmsInOrder(set \ {m})

\* DidPkarrDocumentBuilder::finish
Finish(b) ==
    LET keys == VmsInOrder(DOMAIN b.verification_methods)
    IN [id |-> b.pubkey,
        contents |->
            [aka |-> UrisInOrder(b.also_known_as),
             vm |-> keys,
             vr |-> [i \in DOMAIN keys |-> b.verification_methods[keys[i]]]]]

\* four URIs so long that a record holding all of them exceeds a packet
LongUriLen == 240
LongUris ==
    {UriA \o <<c>> \o Repeat("x", LongUriLen - Len(UriA) - 1) :
        c \in {"a", "b", "c", "d"}}

\* the URIs and relationships handed to the builder: 8 has no known bit
BuilderUris == UriPool \cup LongUris
VrArgs == {Authentication, Assertion + KeyAgreement, 129, 8}

\* vm0=did:key:x
VmKeyX == <<"v", "m", "0", "=", "d", "i", "d", ":", "k", "e", "y", ":", "x">>

\* records of packets from the network, named under the packet's key
RrPool(public_key) ==
    LET own == normalize_name(to_z32(public_key), TXT_DOMAIN)
        other == normalize_name(to_z32(public_key), OTHER_DOMAIN)
    IN {[name |-> own, rtype |-> "TXT",
         rdata |-> RecordOf({1, 3, 9})],
        \* a verification method and no relationship
        [name |-> own, rtype |-> "TXT", rdata |-> RecordOf({3})],
        \* two relationships and one verification method
        [name |-> own, rtype |-> "TXT", rdata |-> RecordOf({3, 11})],
        \* one index written twice, as 0 and as 00
        [name |-> own, rtype |-> "TXT", rdata |-> RecordOf({3, 7})],
        \* a did:key that is not base58-btc multibase
        [name |-> own, rtype |-> "TXT", rdata |-> <<VmKeyX, AttrPool[9]>>],
        [name |-> own, rtype |-> "A", rdata |-> <<>>],
        [name |-> other, rtype |-> "TXT", rdata |-> RecordOf({1, 3, 9})]}

NetPackets ==
    UNION {{[public_key |-> k, timestamp |-> 0, records |-> rs] :
               rs \in SeqsUpTo(RrPool(k), MaxRecords)} : k \in PublicKeys}

\* what a variable holds while it holds nothing
NoContents == [none |-> TRUE]
NoResult == [none |-> TRUE]
NoBuilder == [none |-> TRUE]
NoDoc == [none |-> TRUE]
NoPacket == [none |-> TRUE]

\* also_known_as that keeps only the newest alias
BuilderAlsoKnownAsReplace(b, aka) ==
    [b EXCEPT !.also_known_as = {aka}]

\* DidPkarrDocumentBuilder::also_known_as
BuilderAlsoKnownAs(b, aka) ==
    [b EXCEPT !.also_known_as = @ \cup {aka}]

\* verification_method that keeps the relationship an entry already has
BuilderVerificationMethodKeepFirst(b, vm, vr) ==
    IF from_bits_truncate(vr) = 0 THEN Panic
    ELSE [b EXCEPT !.verification_methods = @ @@ (vm :> from_bits_truncate(vr))]

\* DidPkarrDocumentBuilder::verification_method: the relationship is
\* truncated, an empty one panics, and the entry replaces an older one
BuilderVerificationMethod(b, vm, vr) ==
    IF from_bits_truncate(vr) = 0 THEN Panic
    ELSE [b EXCEPT !.verification_methods = (vm :> from_bits_truncate(vr)) @@ @]

(***************************************************************************)
(* The resolver and the publisher.  A DidPkarr is [key_repr, str_repr].    *)
(* The network client is the environment: it answers a resolve request     *)
(* with the packet the network holds for the key, or with none, and a      *)
(* publish request by accepting the packet or by failing.                  *)
(***************************************************************************)
\* DidPkarr::from_pubkey_bytes
from_pubkey_bytes(public_key) ==
    [key_repr |-> public_key,
     str_repr |-> DidPkarrPrefix \o to_z32(public_key)]

\* DidPkarr::as_pubkey
as_pubkey(d) == d.key_repr

\* DidPkarr::as_str
as_str(d) == d.str_repr

\* the 5-bit value of a z-base-32 character
Z32Value(c) == (CHOOSE i \in DOMAIN Z32Alphabet : Z32Alphabet[i] = c) - 1

\* bit k (from 0) of a z-base-32 text, five bits per character, most
\* significant first
Z32BitAt(values, k) == (values[(k \div 5) + 1] \div (2 ^ (4 - (k % 5)))) % 2

\* base32::decode(Alphabet::Z, ..): None for a character outside the
\* alphabet; else the whole bytes the characters hold, 5 * len / 8 of them,
\* whatever the bits left over in the last character
base32_decode(text) ==
    IF \E i \in DOMAIN text : text[i] \notin Range(Z32Alphabet) THEN None
    ELSE Some(CHOOSE bytes \in
           {[j \in 1..((5 * Len(text)) \div 8) |->
               128 * Z32BitAt(values, 8 * (j - 1))
                 + 64 * Z32BitAt(values, 8 * (j - 1) + 1)
                 + 32 * Z32BitAt(values, 8 * (j - 1) + 2)
                 + 16 * Z32BitAt(values, 8 * (j - 1) + 3)
                 + 8 * Z32BitAt(values, 8 * (j - 1) + 4)
                 + 4 * Z32BitAt(values, 8 * (j - 1) + 5)
                 + 2 * Z32BitAt(values, 8 * (j - 1) + 6)
                 + Z32BitAt(values, 8 * (j - 1) + 7)] :
              values \in {[i \in DOMAIN text |-> Z32Value(text[i])]}} : TRUE)

PUBLIC_KEY_LENGTH == 32

\* VerifyingKey::from_bytes, for the 32-byte strings of the model: the
\* test vectors are points of the curve
VerifyingKeyFromBytes(bytes) ==
    IF bytes \in PublicKeys THEN [ok |-> TRUE, val |-> bytes]
    ELSE [ok |-> FALSE, err |-> <<"InvalidPubkey">>]

\* TryFrom<String> for DidPkarr (and FromStr)
DidPkarrTryFrom(value) ==
    IF Len(value) < Len(DidPkarrPrefix)
         \/ Slice(value, 1, Len(DidPkarrPrefix)) # DidPkarrPrefix
    THEN [ok |-> FALSE, err |-> <<"WrongPrefix">>]
    ELSE
      LET decoded ==
             base32_decode(Slice(value, Len(DidPkarrPrefix) + 1, Len(value)))
      IN
      IF ~decoded.some THEN [ok |-> FALSE, err |-> <<"NotBase32zEncoded">>]
      ELSE IF Len(decoded.v) # PUBLIC_KEY_LENGTH
      THEN [ok |-> FALSE, err |-> <<"WrongLength", Len(decoded.v)>>]
      ELSE
        LET pubkey == VerifyingKeyFromBytes(decoded.v) IN
        IF ~pubkey.ok THEN pubkey
        ELSE [ok |-> TRUE, val |-> [key_repr |-> pubkey.val, str_repr |-> value]]

\* PartialEq::eq for DidPkarr; debug_assertions tells whether the build
\* keeps debug_assert_eq!
DidPkarrEq(self, other, debug_assertions) ==
    LET is_pk_equal == self.key_repr = other.key_repr IN
    IF debug_assertions /\ is_pk_equal # (as_str(self) = as_str(other))
    THEN Panic
    ELSE is_pk_equal

\* DidPkarr::to_did
to_did(d) ==
    LET r == DidFromStr(d.str_repr) IN IF r.ok THEN r.val ELSE Panic

\* the client operation a resolver operation awaits
ClientOpAlwaysResolve(op) == "resolve"

ClientOp(op) == op

\* resolve and resolve_most_recent up to their await: the request they issue
ResolveRequest(op, d) ==
    [op |-> ClientOp(op), public_key |-> as_pubkey(d)]

\* resolve that reports a missing packet as an invalid one
ResolveReturnMissingAsInvalid(answer, order) ==
    IF answer = NoPacket THEN Err(<<"Invalid", "NoDidPkarrTxtRecord">>)
    ELSE CHOOSE r \in {IF t.ok THEN t ELSE Err(<<"Invalid">> \o t.err) :
                          t \in {TryFromSignedPacket(answer, order)}} : TRUE

\* resolve and resolve_most_recent after their await; answer is the
\* Option<SignedPacket> of the client
ResolveReturn(answer, order) ==
    IF answer = NoPacket THEN Err(<<"NotFound">>)
    ELSE CHOOSE r \in {IF t.ok THEN t ELSE Err(<<"Invalid">> \o t.err) :
                          t \in {TryFromSignedPacket(answer, order)}} : TRUE

\* the record TryFrom<SignedPacket> would decode of an answer
AnswerTxt(answer) == IF answer = NoPacket THEN <<>> ELSE TxtToDecode(answer)

\* publish that signs with whatever key it is given
PublishPrepareUnchecked(d, timestamp, signing_key, now) ==
    CHOOSE r \in {IF p.ok
                  THEN [ok |-> TRUE,
                        request |-> [op |-> "publish", packet |-> p.val,
                                     timestamp |-> Some(p.val.timestamp)]]
                  ELSE Err(<<"ToPkarr">> \o p.err) :
                     p \in {ToPkarrPacketUnchecked(d, signing_key,
                              IF timestamp.some THEN timestamp.v ELSE now)}} : TRUE

\* publish that signs the record under another name
PublishPrepareOtherName(d, timestamp, signing_key, now) ==
    CHOOSE r \in {IF p.ok
                  THEN [ok |-> TRUE,
                        request |-> [op |-> "publish", packet |-> p.val,
                                     timestamp |-> Some(p.val.timestamp)]]
                  ELSE Err(<<"ToPkarr">> \o p.err) :
                     p \in {IF verifying_key(signing_key) # d.id
                            THEN Err(<<"KeyMismatch">>)
                            ELSE Sign(OTHER_DOMAIN, ToTxtRecord(d.contents),
                                      IF timestamp.some THEN timestamp.v ELSE now,
                                      signing_key)}} : TRUE

\* publish up to its await: the timestamp defaults to the clock, the packet
\* is built, and either an error is returned or a request is issued
PublishPrepare(d, timestamp, signing_key, now) ==
    CHOOSE r \in {IF p = Panic THEN Panic
                  ELSE IF p.ok
                  THEN [ok |-> TRUE,
                        request |-> [op |-> "publish", packet |-> p.val,
                                     timestamp |-> Some(p.val.timestamp)]]
                  ELSE Err(<<"ToPkarr">> \o p.err) :
                     p \in {ToPkarrPacket(d, signing_key,
                              IF timestamp.some THEN timestamp.v ELSE now)}} : TRUE

\* Ok(())
Unit == <<>>

\* publish after its await; answer is the client's Result<(), PublishError>
PublishReturn(answer) ==
    IF answer.ok THEN [ok |-> TRUE, val |-> Unit] ELSE Err(<<"IoErr">>)

\* the two callers that may run concurrently
Tasks == {1, 2}

NoRequest == [none |-> TRUE]
NoAnswer == [none |-> TRUE]
NoArgs == [none |-> TRUE]

\* one answer slot shared by the calls of an operation: a call reads the
\* answer the other call of its kind has received, if there is one
AnswerShared(slots, c) ==
    IF /\ slots[3 - c].answer # NoAnswer
       /\ (slots[3 - c].op = "publish") = (slots[c].op = "publish")
    THEN slots[3 - c].answer
    ELSE slots[c].answer

\* the value a call's await yields: the client's answer to its own request
OwnAnswer(slots, c) == slots[c].answer


IdleTask ==
    [op |-> "none", args |-> NoArgs, pc |-> "idle", request |-> NoRequest,
     answer |-> NoAnswer, result |-> NoResult]

\* documents handed to publish: what the builder yields for the second key
\* alone (as did-cli creates an identity), for the first key with an alias
\* and a did:key, with a did:key held in the DidUrl variant, and with the
\* four long aliases
DocOfCreate == Finish(BuilderNew(ED25519_EXAMPLES[2].public))
DocSmall ==
    Finish(BuilderVerificationMethod(
             BuilderAlsoKnownAs(BuilderNew(ED25519_EXAMPLES[1].public), UriA),
             VmKeyA, Authentication))
DocMisTagged ==
    Finish(BuilderVerificationMethod(
             BuilderNew(ED25519_EXAMPLES[1].public), VmMisTagged, Assertion))
DocLarge ==
    Finish([BuilderNew(ED25519_EXAMPLES[1].public)
              EXCEPT !.also_known_as = LongUris])

IoDids == {from_pubkey_bytes(k) : k \in PublicKeys}

\* the arguments of publish: each document with its own key, and the
\* first one also with the other key
PublishArgs ==
    {[doc |-> DocOfCreate, timestamp |-> None,
      signing_key |-> ED25519_EXAMPLES[2].private],
     [doc |-> DocSmall, timestamp |-> Some(0),
      signing_key |-> ED25519_EXAMPLES[1].private],
     [doc |-> DocMisTagged, timestamp |-> Some(0),
      signing_key |-> ED25519_EXAMPLES[1].private],
     [doc |-> DocLarge, timestamp |-> None,
      signing_key |-> ED25519_EXAMPLES[1].private],
     [doc |-> DocOfCreate, timestamp |-> None,
      signing_key |-> ED25519_EXAMPLES[1].private]}

\* readings of the clock
ClockReadings == 1..MaxTs

\* the packets another holder of the first key may have left on the
\* network: one with two records of the name, one whose record has vm0 and
\* vm00
OtherPackets ==
    LET k == ED25519_EXAMPLES[1].public
        own == normalize_name(to_z32(k), TXT_DOMAIN)
        rr == [name |-> own, rtype |-> "TXT", rdata |-> RecordOf({2, 9})]
        dup == [name |-> own, rtype |-> "TXT", rdata |-> RecordOf({3, 7})]
    IN {[public_key |-> k, timestamp |-> 0, records |-> <<rr, rr>>],
        [public_key |-> k, timestamp |-> 0, records |-> <<dup>>]}

(***************************************************************************)
(* State.                                                                  *)
(***************************************************************************)
VARIABLES
    \* codec: the DidDocumentContents in hand, or NoContents
    x,
    \* codec: the TXT record in hand
    txt,
    \* codec: what TryFrom<&TXT> returned, or NoResult
    decoded,
    \* codec: "doc" (contents in hand), "encoded" (to_txt_record has run),
    \* "received" (a record from the wire), "decoded" (try_from has run)
    pc,
    \* codec: "doc" when txt was produced by to_txt_record, "wire" otherwise
    origin,
    \* packet: the DidPkarrDocumentBuilder in hand, or NoBuilder
    builder,
    \* packet: the DidPkarrDocument that finish returned, or NoDoc
    doc,
    \* packet: [signing_key, ts, result] of the to_pkarr_packet call, or NoResult
    call,
    \* packet: the SignedPacket in hand, or NoPacket
    packet,
    \* packet: what TryFrom<SignedPacket> returned, or NoResult
    parsed,
    \* packet: [op, of, val], what a getter returned for which document
    shown,
    \* packet: "building", "panicked", "doc", "signed", "refused",
    \* "received", "parsed", "shown"
    ppc,
    \* packet: "doc" when the packet was signed here, "wire" otherwise
    porigin,
    \* packet: [pubkey, also_known_as, verification_methods], the arguments
    \* the builder has been given: the key, the aliases, and for each method
    \* the relationship of the latest call that named it; or NoBuilder
    supplied,
    \* io: for each public key the packet the network holds, or NoPacket
    store,
    \* io: for each caller [op, args, pc, request, answer, result]; pc is
    \* "idle", "awaiting" (request issued), "answered" (the client has
    \* answered) or "done" (the call has returned result)
    tasks,
    \* io: every request the client has received, as <<caller, request>>
    requests,
    \* did: the DidPkarr values constructed so far, in order
    dids,
    \* did: [op, args, val], the last operation on DidPkarr and what it
    \* returned, or NoResult
    outcome

codecVars == <<x, txt, decoded, pc, origin>>

packetVars ==
    <<builder, doc, call, packet, parsed, shown, ppc, porigin, supplied>>

ioVars == <<store, tasks, requests>>

didVars == <<dids, outcome>>

vars == <<codecVars, packetVars, ioVars, didVars>>

\* the codec at rest, while the packet layer runs
CodecIdle ==
    /\ x = NoContents
    /\ txt = <<>>
    /\ decoded = NoResult
    /\ pc = "idle"
    /\ origin = "none"

\* the packet layer at rest, while the codec runs
PacketIdle ==
    /\ builder = NoBuilder
    /\ doc = NoDoc
    /\ call = NoResult
    /\ packet = NoPacket
    /\ parsed = NoResult
    /\ shown = NoResult
    /\ ppc = "idle"
    /\ porigin = "none"
    /\ supplied = NoBuilder

\* the resolver and publisher at rest, while the other layers run
IoIdle ==
    /\ store = [k \in PublicKeys |-> NoPacket]
    /\ tasks = [c \in Tasks |-> IdleTask]
    /\ requests = <<>>

\* no DidPkarr value constructed, while the other layers run
DidIdle ==
    /\ dids = <<>>
    /\ outcome = NoResult

(***************************************************************************)
(* The codec as a state machine: a document is encoded and the record      *)
(* decoded again, or a record arrives from the wire and is decoded.        *)
(***************************************************************************)
InitCodec ==
    /\ PacketIdle
    /\ IoIdle
    /\ DidIdle
    /\ decoded = NoResult
    /\ \/ /\ x \in Contents
          /\ txt = <<>>
          /\ pc = "doc"
          /\ origin = "doc"
       \/ /\ x = NoContents
          /\ txt \in WireRecords
          /\ pc = "received"
          /\ origin = "wire"

\* DidDocumentContents::to_txt_record
to_txt_record ==
    /\ pc = "doc"
    /\ IF ToTxtRecordPanics(x)
       THEN txt' = <<>> /\ pc' = "panicked"
       ELSE txt' = ToTxtRecord(x) /\ pc' = "encoded"
    /\ UNCHANGED <<x, decoded, origin, packetVars, ioVars, didVars>>

\* DidDocumentContents::try_from(&TXT)
try_from_txt ==
    /\ pc \in {"encoded", "received"}
    /\ \E order \in Orders(txt) : decoded' = TryFromTxt(txt, order)
    /\ pc' = "decoded"
    /\ UNCHANGED <<x, txt, origin, packetVars, ioVars, didVars>>

NextCodec == to_txt_record \/ try_from_txt

Spec == InitCodec /\ [][NextCodec]_vars

(***************************************************************************)
(* The packet layer as a state machine: a document is built, signed into   *)
(* a packet and the packet parsed again, or a packet arrives from the      *)
(* network and is parsed; the getters read the document in hand.           *)
(***************************************************************************)
InitPacket ==
    /\ CodecIdle
    /\ doc = NoDoc
    /\ call = NoResult
    /\ parsed = NoResult
    /\ shown = NoResult
    /\ IoIdle
    /\ DidIdle
    /\ \/ /\ \E k \in PublicKeys :
                /\ builder = BuilderNew(k)
                /\ supplied = [pubkey |-> k, also_known_as |-> {},
                               verification_methods |-> <<>>]
          /\ packet = NoPacket
          /\ ppc = "building"
          /\ porigin = "doc"
       \/ /\ builder = NoBuilder
          /\ supplied = NoBuilder
          /\ packet \in NetPackets
          /\ ppc = "received"
          /\ porigin = "wire"

\* DidPkarrDocumentBuilder::also_known_as
also_known_as ==
    /\ ppc = "building"
    /\ \E aka \in BuilderUris :
          /\ builder' = BuilderAlsoKnownAs(builder, aka)
          /\ supplied' = [supplied EXCEPT !.also_known_as = @ \cup {aka}]
    /\ UNCHANGED <<doc, call, packet, parsed, shown, ppc, porigin,
                   codecVars, ioVars, didVars>>

\* DidPkarrDocumentBuilder::verification_method
verification_method ==
    /\ ppc = "building"
    /\ \E verification_method_ \in VmPool, verification_relationship \in VrArgs :
          LET b == BuilderVerificationMethod(builder, verification_method_,
                                             verification_relationship)
          IN /\ ppc' = IF b = Panic THEN "panicked" ELSE ppc
             /\ builder' = IF b = Panic THEN NoBuilder ELSE b
             /\ supplied' =
                   [supplied EXCEPT !.verification_methods =
                      (verification_method_ :> verification_relationship) @@ @]
    /\ UNCHANGED <<doc, call, packet, parsed, shown, porigin,
                   codecVars, ioVars, didVars>>

\* DidPkarrDocumentBuilder::finish
finish ==
    /\ ppc = "building"
    /\ doc' = Finish(builder)
    /\ builder' = NoBuilder
    /\ ppc' = "doc"
    /\ UNCHANGED <<call, packet, parsed, shown, porigin, supplied,
                   codecVars, ioVars, didVars>>

\* DidPkarrDocument::to_pkarr_packet
to_pkarr_packet ==
    /\ ppc = "doc"
    /\ \E signing_key \in SigningKeys, ts \in 0..MaxTs :
          LET r == ToPkarrPacket(doc, signing_key, ts)
          IN /\ call' = [signing_key |-> signing_key, ts |-> ts, result |-> r]
             /\ packet' = IF r # Panic /\ r.ok THEN r.val ELSE NoPacket
             /\ ppc' = IF r = Panic THEN "panicked"
                       ELSE IF r.ok THEN "signed" ELSE "refused"
    /\ UNCHANGED <<builder, doc, parsed, shown, porigin, supplied,
                   codecVars, ioVars, didVars>>

\* DidPkarrDocument::try_from(SignedPacket)
try_from_signed_packet ==
    /\ ppc \in {"signed", "received"}
    /\ \E order \in Orders(TxtToDecode(packet)) :
          parsed' = TryFromSignedPacket(packet, order)
    /\ ppc' = "parsed"
    /\ UNCHANGED <<builder, doc, call, packet, shown, porigin,
                   supplied, codecVars, ioVars, didVars>>

\* the document a getter is called on: the parsed one, else the built one
Held == IF ppc = "parsed" THEN parsed.val ELSE doc

HoldsDoc == ppc = "doc" \/ (ppc = "parsed" /\ parsed.ok)

\* DidPkarrDocument::did
did ==
    /\ HoldsDoc
    /\ shown' = [op |-> "did", of |-> Held, val |-> Did(Held)]
    /\ ppc' = "shown"
    /\ UNCHANGED <<builder, doc, call, packet, parsed, porigin,
                   supplied, codecVars, ioVars, didVars>>

\* DidPkarrDocument::verification_methods, in a build with or without
\* debug assertions
verification_methods ==
    /\ HoldsDoc
    /\ \E debug_assertions \in BOOLEAN :
          shown' = [op |-> "verification_methods", of |-> Held,
                    val |-> VerificationMethods(Held, debug_assertions)]
    /\ ppc' = "shown"
    /\ UNCHANGED <<builder, doc, call, packet, parsed, porigin,
                   supplied, codecVars, ioVars, didVars>>

\* DidDocument::from(pkarr_doc), what the CLI's resolver does with the
\* document resolve returned, in a build with or without debug assertions
into_did_document ==
    /\ ppc = "parsed"
    /\ parsed.ok
    /\ \E debug_assertions \in BOOLEAN :
          shown' = [op |-> "into_did_document", of |-> parsed.val,
                    val |-> DidDocumentFrom(parsed.val, debug_assertions)]
    /\ ppc' = "shown"
    /\ UNCHANGED <<builder, doc, call, packet, parsed, porigin,
                   supplied, codecVars, ioVars, didVars>>

NextPacket ==
    \/ also_known_as
    \/ verification_method
    \/ finish
    \/ to_pkarr_packet
    \/ try_from_signed_packet
    \/ did
    \/ verification_methods
    \/ into_did_document

SpecPacket == InitPacket /\ [][NextPacket]_vars

(***************************************************************************)
(* The resolver and publisher as a state machine.  Each of the two callers *)
(* makes one call; a call runs up to its await, the client answers, and    *)
(* the call runs on to its return.  Calls and answers interleave freely,   *)
(* and other publishers change what the network holds.                     *)
(***************************************************************************)
InitIo ==
    /\ CodecIdle
    /\ PacketIdle
    /\ IoIdle
    /\ DidIdle

\* the caller's slot once a resolver operation has reached its await
AwaitingResolve(op, d) ==
    [op |-> op, args |-> [did |-> d], pc |-> "awaiting",
     request |-> ResolveRequest(op, d), answer |-> NoAnswer,
     result |-> NoResult]

\* PkarrClientExt::resolve and PkarrClientBlockingExt::resolve, to the await
resolve_call ==
    /\ \E c \in Tasks, d \in IoDids :
          /\ tasks[c].pc = "idle"
          /\ tasks' = [tasks EXCEPT ![c] = AwaitingResolve("resolve", d)]
          /\ requests' = Append(requests, <<c, ResolveRequest("resolve", d)>>)
    /\ UNCHANGED <<store, codecVars, packetVars, didVars>>

\* resolve_most_recent of both traits, to the await
resolve_most_recent_call ==
    /\ \E c \in Tasks, d \in IoDids :
          /\ tasks[c].pc = "idle"
          /\ tasks' = [tasks EXCEPT
                         ![c] = AwaitingResolve("resolve_most_recent", d)]
          /\ requests' = Append(requests,
                            <<c, ResolveRequest("resolve_most_recent", d)>>)
    /\ UNCHANGED <<store, codecVars, packetVars, didVars>>

\* publish of both traits, to the await or to the early return
publish_call ==
    /\ \E c \in Tasks, a \in PublishArgs, now \in ClockReadings :
          LET p == PublishPrepare(a.doc, a.timestamp, a.signing_key, now)
          IN /\ tasks[c].pc = "idle"
             /\ tasks' = [tasks EXCEPT ![c] =
                   [op |-> "publish", args |-> a,
                    pc |-> IF p # Panic /\ p.ok THEN "awaiting" ELSE "done",
                    request |-> IF p # Panic /\ p.ok THEN p.request ELSE NoRequest,
                    answer |-> NoAnswer,
                    result |-> IF p # Panic /\ p.ok THEN NoResult ELSE p]]
             /\ requests' = IF p # Panic /\ p.ok
                            THEN Append(requests, <<c, p.request>>)
                            ELSE requests
    /\ UNCHANGED <<store, codecVars, packetVars, didVars>>

\* the client answers a resolve or resolve_most_recent request with what
\* the network holds for the key
client_resolve ==
    /\ \E c \in Tasks :
          /\ tasks[c].pc = "awaiting"
          /\ tasks[c].request.op \in {"resolve", "resolve_most_recent"}
          /\ tasks' = [tasks EXCEPT
                         ![c].answer = store[tasks[c].request.public_key],
                         ![c].pc = "answered"]
    /\ UNCHANGED <<store, requests, codecVars, packetVars, didVars>>

\* the client answers a publish request: the network takes the packet, or
\* the request fails
client_publish ==
    /\ \E c \in Tasks, accepted \in BOOLEAN :
          /\ tasks[c].pc = "awaiting"
          /\ tasks[c].request.op = "publish"
          /\ tasks' = [tasks EXCEPT ![c].answer = [ok |-> accepted],
                                    ![c].pc = "answered"]
          /\ store' = IF accepted
                      THEN [store EXCEPT
                              ![tasks[c].request.packet.public_key] =
                                  tasks[c].request.packet]
                      ELSE store
    /\ UNCHANGED <<requests, codecVars, packetVars, didVars>>

\* resolve and resolve_most_recent from the await to the return
resolve_return ==
    /\ \E c \in Tasks :
          /\ tasks[c].pc = "answered"
          /\ tasks[c].op \in {"resolve", "resolve_most_recent"}
          /\ \E order \in Orders(AnswerTxt(OwnAnswer(tasks, c))) :
                tasks' = [tasks EXCEPT
                            ![c].result = ResolveReturn(OwnAnswer(tasks, c), order),
                            ![c].pc = "done"]
    /\ UNCHANGED <<store, requests, codecVars, packetVars, didVars>>

\* publish from the await to the return
publish_return ==
    /\ \E c \in Tasks :
          /\ tasks[c].pc = "answered"
          /\ tasks[c].op = "publish"
          /\ tasks' = [tasks EXCEPT
                         ![c].result = PublishReturn(OwnAnswer(tasks, c)),
                         ![c].pc = "done"]
    /\ UNCHANGED <<store, requests, codecVars, packetVars, didVars>>

\* another publisher replaces what the network holds for a key
network_update ==
    /\ \E p \in OtherPackets :
          /\ store[p.public_key] # p
          /\ store' = [store EXCEPT ![p.public_key] = p]
    /\ UNCHANGED <<tasks, requests, codecVars, packetVars, didVars>>

NextIo ==
    \/ resolve_call
    \/ resolve_most_recent_call
    \/ publish_call
    \/ client_resolve
    \/ client_publish
    \/ resolve_return
    \/ publish_return
    \/ network_update

SpecIo == InitIo /\ [][NextIo]_vars

(***************************************************************************)
(* DidPkarr as a state machine: values are constructed from key bytes and  *)
(* from texts, and compared.                                               *)
(***************************************************************************)
\* the text of a key's DID with the last character replaced by the next
\* character of the alphabet: the same 256 bits and one more bit set among
\* the four the last character carries beyond them
OtherLastChar(text) ==
    [text EXCEPT ![Len(text)] = Z32Alphabet[Z32Value(@) + 2]]

\* the texts handed to the parser: for each key its DID, its DID with
\* another last character, with one character more, and with a ':' at the
\* end; "did:pkarr:" alone and a did:key
DidTexts ==
    UNION {{as_str(d), OtherLastChar(as_str(d)), as_str(d) \o <<"a">>,
            as_str(d) \o <<":">>} :
              d \in {from_pubkey_bytes(k) : k \in PublicKeys}}
      \cup {DidPkarrPrefix, DidKeyText}

InitDid ==
    /\ CodecIdle
    /\ PacketIdle
    /\ IoIdle
    /\ DidIdle

\* DidPkarr::from_pubkey_bytes
did_from_pubkey_bytes ==
    /\ Len(dids) < MaxDids
    /\ \E public_key \in PublicKeys :
          /\ dids' = Append(dids, from_pubkey_bytes(public_key))
          /\ outcome' = [op |-> "from_pubkey_bytes", args |-> <<public_key>>,
                         val |-> [ok |-> TRUE, val |-> from_pubkey_bytes(public_key)]]
    /\ UNCHANGED <<codecVars, packetVars, ioVars>>

\* DidPkarr::try_from(String)
did_try_from ==
    /\ Len(dids) < MaxDids
    /\ \E value \in DidTexts :
          \E r \in {DidPkarrTryFrom(value)} :
             /\ dids' = IF r.ok THEN Append(dids, r.val) ELSE dids
             /\ outcome' = [op |-> "try_from", args |-> <<value>>, val |-> r]
    /\ UNCHANGED <<codecVars, packetVars, ioVars>>

\* a == b on two of the values, in a build with or without debug
\* assertions
did_eq ==
    /\ \E i, j \in DOMAIN dids, debug_assertions \in BOOLEAN :
          outcome' = [op |-> "eq", args |-> <<dids[i], dids[j]>>,
                      val |-> DidPkarrEq(dids[i], dids[j], debug_assertions)]
    /\ UNCHANGED <<dids, codecVars, packetVars, ioVars>>

NextDid == did_from_pubkey_bytes \/ did_try_from \/ did_eq

SpecDid == InitDid /\ [][NextDid]_vars


(***************************************************************************)
(* Properties of the codec.                                                *)
(***************************************************************************)
\* a verification method holds a DID and carries the variant its method
\* calls for: DidKey for did:key, DidUrl for every other method
VmWellFormed(vm) ==
    /\ IsUri(vm.did.uri)
    /\ DidFromUri(vm.did.uri) = Ok(vm.did)
    /\ vm.tag = IF DidMethod(vm.did) = <<"k", "e", "y">> THEN "DidKey" ELSE "DidUrl"

\* a well-formed DidDocumentContents: vm and vr of one length, only the
\* three recognized bits in vr, valid URIs and verification methods
WellFormed(c) ==
    /\ Len(c.vm) = Len(c.vr)
    /\ \A i \in DOMAIN c.vr : c.vr[i] \in 0..7
    /\ \A i \in DOMAIN c.aka : IsUri(c.aka[i])
    /\ \A i \in DOMAIN c.vm : VmWellFormed(c.vm[i])

\* C1: for every well-formed DidDocumentContents x, decoding the record
\* that x.to_txt_record() produced returns Ok(x).
C1_RoundTrip ==
    (pc = "decoded" /\ origin = "doc" /\ WellFormed(x)) => decoded = Ok(x)

\* the digits of a key form its suffix, after a prefix without digits
HasDigit(k) == \E i \in DOMAIN k : k[i] \in DigitSet

DigitsAreSuffix(k) ==
    \A i, j \in DOMAIN k : (i < j /\ k[i] \in DigitSet) => k[j] \in DigitSet

KeyPrefix(k) == SelectSeq(k, LAMBDA c : c \notin DigitSet)

RECURSIVE DigitsValue(_)
DigitsValue(ds) ==
    IF ds = <<>> THEN 0
    ELSE 10 * DigitsValue(SubSeq(ds, 1, Len(ds) - 1)) + DigitVal(ds[Len(ds)])

KeyNumber(k) == DigitsValue(SelectSeq(k, LAMBDA c : c \in DigitSet))

\* the keys of the record that carry a value and an index
IndexedKeys(record) ==
    UNION {{k \in DOMAIN attrs : attrs[k].some /\ HasDigit(k)} :
              attrs \in {Attributes(record)}}

NoMalformedIndex(record) ==
    \A k \in IndexedKeys(record) : DigitsAreSuffix(k) /\ KeyNumber(k) <= U8_MAX

\* the list name and the index of each indexed key of the record
NamedIndices(record) ==
    {<<KeyPrefix(k), KeyNumber(k), k>> : k \in IndexedKeys(record)}

NoRepeatedIndex(record) ==
    \A named \in {NamedIndices(record)} :
       \A e, f \in named : (e[1] = f[1] /\ e[2] = f[2]) => e[3] = f[3]

\* the indices present under the prefix of key k
IndicesOf(record, k) ==
    {KeyNumber(h) : h \in {g \in IndexedKeys(record) : KeyPrefix(g) = KeyPrefix(k)}}

HasGap(record) ==
    \E named \in {NamedIndices(record)} :
       \E e \in named :
          \E indices \in {{f[2] : f \in {g \in named : g[1] = e[1]}}} :
             indices # 0..(Cardinality(indices) - 1)

\* the record holds two character-strings with one indexed key and
\* different values
HasConflictingKey(record) ==
    \E i, j \in DOMAIN record :
        /\ i # j
        /\ AttrKey(record[i]) = AttrKey(record[j])
        /\ HasDigit(AttrKey(record[i]))
        /\ AttrValue(record[i]).some /\ AttrValue(record[j]).some
        /\ AttrValue(record[i]) # AttrValue(record[j])

SkippedIndexErr == [ok |-> FALSE, err |-> <<"ListAssembly", "SkippedIndex">>]
DuplicateIndexErr == [ok |-> FALSE, err |-> <<"ListAssembly", "DuplicateIndex">>]

\* C3: decoding a record that holds two attributes with the same key and
\* different values (vm0=A, vm0=B) returns ListAssembly(DuplicateIndex).
C3_SameKeyIsDuplicateIndex ==
    (pc = "decoded" /\ origin = "wire" /\ HasConflictingKey(txt)
       /\ NoMalformedIndex(txt))
    => decoded = DuplicateIndexErr

\* the case of C4: a decoded wire record below the attribute limit, without
\* malformed or repeated index, with a gap under some prefix
C4_Case ==
    /\ pc = "decoded"
    /\ origin = "wire"
    /\ Cardinality(DOMAIN Attributes(txt)) < U8_MAX
    /\ NoMalformedIndex(txt)
    /\ NoRepeatedIndex(txt)
    /\ HasGap(txt)

\* C4: for a record with fewer than 255 attributes and no malformed or
\* repeated index, indices that are not exactly 0..n-1 under some prefix
\* make decoding return ListAssembly(SkippedIndex), never a document.
C4_GapIsSkippedIndex == C4_Case => decoded = SkippedIndexErr

\* a record with vm0 and vm2 but no vm1 was decoded to SkippedIndex
C4_Witness ==
    /\ C4_Case
    /\ decoded = SkippedIndexErr
    /\ IndicesOf(txt, VM \o <<"0">>) = {0, 2}

\* C9: the attribute keys of to_txt_record, in emission order, are in
\* ascending lexicographic order, for lists of any length.
C9_KeysSorted ==
    (pc \in {"encoded", "decoded"} /\ origin = "doc") => IsSorted(RecordKeys(txt))

\* the value of the record's vr attribute ("" when there is none)
VrText(record) ==
    LET attrs == Attributes(record) IN
    IF VR \in DOMAIN attrs /\ attrs[VR].some THEN attrs[VR].v ELSE <<>>

\* C10: every byte b of the decoded vr attribute yields a relationship with
\* exactly the bits b AND 0b111; no byte value makes decoding fail, an
\* all-zero result is accepted, and 0x81 decodes to Authentication only.
C10_VrBitsTruncated ==
    pc = "decoded" =>
      /\ \A b \in 0..U8_MAX :
            txt = <<VrAttr(<<b>>)>> =>
               decoded = Ok([aka |-> <<>>, vm |-> <<>>, vr |-> <<b % 8>>])
      /\ (origin = "wire" /\ decoded.ok) =>
            /\ Len(decoded.val.vr) = Len(b64_dec(VrText(txt)).bytes)
            /\ \A i \in DOMAIN decoded.val.vr :
                  decoded.val.vr[i] = b64_dec(VrText(txt)).bytes[i] % 8

\* the byte 0x81 was decoded to Authentication alone, and the byte 0x08
\* to the empty relationship
C10_Witness ==
    /\ pc = "decoded"
    /\ \/ txt = <<VrAttr(<<129>>)>> /\ decoded = Ok([aka |-> <<>>, vm |-> <<>>,
                                                    vr |-> <<Authentication>>])
       \/ txt = <<VrAttr(<<8>>)>> /\ decoded = Ok([aka |-> <<>>, vm |-> <<>>,
                                                   vr |-> <<0>>])


\* z-base-32 of the public key of Test1, computed outside the model
Z32_Test1 ==
    <<"4","7","p","j","o","y","c","n","s","r","f","m","x","i","k","m","9","5","j","h","1","3","y","8","8","e","8","q","n","h","z","u","5","k","u","n","g","j","p","x","y","e","p","g","t","7","a","8","k","r","p","y">>

\* z-base-32 of the public key of Test2, computed outside the model
Z32_Test2 ==
    <<"8","i","y","b","x","o","9","e","e","q","r","i","i","r","i","z","b","k","u","w","4","g","5","6","z","1","q","j","o","m","g","x","f","5","n","j","p","d","g","y","3","i","k","9","n","k","z","w","c","a","g","y">>
\* the z-base-32 text of a test vector's public key
ExpectedZ32(id) ==
    IF id = ED25519_EXAMPLES[1].public THEN Z32_Test1 ELSE Z32_Test2

\* C2: to_pkarr_packet returns KeyMismatch, and no packet, whenever the
\* public half of the signing key differs from the document's id; every
\* packet it returns was signed by the key the caller gave and carries the
\* document's id as its public key.
C2_KeyMismatchRefused ==
    call # NoResult =>
      /\ verifying_key(call.signing_key) # doc.id =>
            (call.result = Err(<<"KeyMismatch">>) /\ packet = NoPacket)
      /\ call.result.ok =>
            /\ packet.public_key = doc.id
            /\ packet.public_key = verifying_key(call.signing_key)

\* a document with a verification method was refused a signature by the
\* key that is not its own
C2_Witness ==
    /\ call # NoResult
    /\ verifying_key(call.signing_key) # doc.id
    /\ doc.contents.vm # <<>>
    /\ call.result = Err(<<"KeyMismatch">>)

\* C5: every document from finish or from try_from(SignedPacket) has as
\* many verification methods as relationships, and verification_methods()
\* yields one pair per verification method.
C5_VmVrSameLength ==
    /\ doc # NoDoc => Len(doc.contents.vm) = Len(doc.contents.vr)
    /\ (parsed # NoResult /\ parsed.ok) =>
          Len(parsed.val.contents.vm) = Len(parsed.val.contents.vr)
    /\ (shown # NoResult /\ shown.op = "verification_methods") =>
          /\ shown.val # Panic
          /\ Len(shown.val) = Len(shown.of.contents.vm)

\* the records of the packet in hand that are named _did_pkarr.
DidPkarrRecords ==
    {i \in DOMAIN packet.records :
        packet.records[i].name =
            normalize_name(to_z32(packet.public_key), TXT_DOMAIN)}

\* C6: try_from(SignedPacket) returns NoDidPkarrTxtRecord when no record
\* of the packet is named _did_pkarr. and MultipleDidPkarrRecords when
\* more than one is, whatever their types and payloads.
C6_RecordCountDecides ==
    (ppc = "parsed" /\ porigin = "wire") =>
      /\ Cardinality(DidPkarrRecords) = 0 =>
            parsed = Err(<<"NoDidPkarrTxtRecord">>)
      /\ Cardinality(DidPkarrRecords) > 1 =>
            parsed = Err(<<"MultipleDidPkarrRecords">>)

\* C7, as the code has it: whenever to_pkarr_packet returns a packet for a
\* document d with well-formed contents (the key then matches d.id), at
\* any timestamp, try_from of that packet returns a document equal to d.
C7_SignedPacketRoundTrip ==
    (porigin = "doc" /\ parsed # NoResult /\ WellFormed(doc.contents)) =>
       parsed = Ok(doc)

\* a document with an alias and two verification methods came back from
\* the packet it was signed into
C7_Witness ==
    /\ porigin = "doc"
    /\ parsed # NoResult
    /\ parsed = Ok(doc)
    /\ doc.contents.aka # <<>>
    /\ Len(doc.contents.vm) = 2
    /\ call.result.ok

\* C7, as stated: for every document d with well-formed contents, every
\* signing key whose public half is d.id and every timestamp,
\* to_pkarr_packet returns a packet and try_from of it returns d.
C7_EveryDocumentRoundTrips ==
    (call # NoResult /\ verifying_key(call.signing_key) = doc.id
       /\ WellFormed(doc.contents)) =>
       /\ call.result.ok
       /\ parsed # NoResult => parsed = Ok(doc)

\* C8: a document parsed from a packet has the packet's public key as its
\* id, and did() of any document is the DID "did:pkarr:" followed by the
\* z-base-32 text of its id; did() never fails.
C8_SelfCertifying ==
    /\ (parsed # NoResult /\ parsed.ok) => parsed.val.id = packet.public_key
    /\ (shown # NoResult /\ shown.op = "did") =>
          /\ shown.val # Panic
          /\ shown.val.uri = DidPkarrPrefix \o ExpectedZ32(shown.of.id)
          /\ DidMethod(shown.val) = <<"p", "k", "a", "r", "r">>
          /\ (parsed # NoResult) => shown.of.id = packet.public_key

\* did() was read from a document parsed from a packet of the second key
C8_Witness ==
    /\ porigin = "wire"
    /\ parsed # NoResult
    /\ parsed.ok
    /\ shown # NoResult
    /\ shown.op = "did"
    /\ packet.public_key = ED25519_EXAMPLES[2].public
    /\ shown.val.uri = DidPkarrPrefix \o Z32_Test2


(***************************************************************************)
(* Claims about the resolver and the publisher.                            *)
(***************************************************************************)
ResolveOps == {"resolve", "resolve_most_recent"}

\* the calls of a resolver operation that have returned
ResolvesDone == {c \in Tasks : tasks[c].op \in ResolveOps /\ tasks[c].pc = "done"}

\* what TryFrom<SignedPacket> can make of a packet
Conversions(p) ==
    {TryFromSignedPacket(p, order) : order \in Orders(TxtToDecode(p))}

\* C11: resolve and resolve_most_recent return NotFound exactly when the
\* client answered with no packet, Invalid wrapping the conversion error
\* exactly when the conversion of the answered packet failed, and otherwise
\* Ok with the document converted from that very packet.
C11_ResolveResult ==
    \A c \in ResolvesDone :
       LET answer == tasks[c].answer
           result == tasks[c].result
       IN /\ (result = Err(<<"NotFound">>)) <=> (answer = NoPacket)
          /\ answer # NoPacket =>
                \E t \in Conversions(answer) :
                   IF t.ok
                   THEN result = [ok |-> TRUE, val |-> t.val]
                   ELSE result = Err(<<"Invalid">> \o t.err)

\* a resolve_most_recent that returned the document of the answered packet
C11_Witness ==
    \E c \in ResolvesDone :
       /\ tasks[c].op = "resolve_most_recent"
       /\ tasks[c].answer # NoPacket
       /\ tasks[c].result.ok
       /\ tasks[c].result \in Conversions(tasks[c].answer)


\* the calls of publish that have returned
PublishesDone == {c \in Tasks : tasks[c].op = "publish" /\ tasks[c].pc = "done"}

\* the requests the client has received from caller c
RequestsOf(c) == SelectSeq(requests, LAMBDA e : e[1] = c)

KeyMismatched(c) ==
    verifying_key(tasks[c].args.signing_key) # tasks[c].args.doc.id

\* C12: a publish whose signing key is not the document's returns
\* PublishErr::ToPkarr without a request to the client, so that the network
\* holds nothing of it; a publish the client failed returns PublishErr::IoErr;
\* a publish returns Ok only after the client accepted its packet.
C12_PublishResult ==
    /\ \A c \in PublishesDone :
          /\ KeyMismatched(c) =>
                /\ tasks[c].result = Err(<<"ToPkarr", "KeyMismatch">>)
                /\ RequestsOf(c) = <<>>
                /\ tasks[c].answer = NoAnswer
          /\ tasks[c].answer = [ok |-> FALSE] => tasks[c].result = Err(<<"IoErr">>)
          /\ tasks[c].result.ok =>
                /\ tasks[c].answer = [ok |-> TRUE]
                /\ Len(RequestsOf(c)) = 1
                /\ RequestsOf(c)[1][2].op = "publish"
    /\ \A k \in PublicKeys :
          store[k] \notin {NoPacket} \cup OtherPackets =>
             \E i \in DOMAIN requests :
                /\ requests[i][2].op = "publish"
                /\ requests[i][2].packet = store[k]
                /\ ~KeyMismatched(requests[i][1])

\* one publish refused for its key, the other failed by the client
C12_Witness ==
    \E c, e \in PublishesDone :
       /\ KeyMismatched(c)
       /\ ~tasks[c].result.ok
       /\ tasks[c].result.err[1] = "ToPkarr"
       /\ \A k \in PublicKeys : store[k] = NoPacket
       /\ tasks[e].answer = [ok |-> FALSE]
       /\ tasks[e].result = Err(<<"IoErr">>)


\* caller c resolved the DID of the document that caller e had published,
\* and the client answered c with the packet it had accepted from e
ResolvedWhatWasPublished(c, e) ==
    /\ c \in ResolvesDone
    /\ e \in PublishesDone
    /\ tasks[e].result.ok
    /\ tasks[c].args.did = from_pubkey_bytes(tasks[e].args.doc.id)
    /\ tasks[c].answer = tasks[e].request.packet

\* C13, as the code has it: with a client that returns the packet it
\* accepted, after publish of a document with well-formed contents returned
\* Ok, resolve and resolve_most_recent of the DID of the document's key
\* return a document equal to it, whose did() is that DID.
C13_PublishedIsResolved ==
    \A c, e \in Tasks :
       (ResolvedWhatWasPublished(c, e) /\ WellFormed(tasks[e].args.doc.contents)) =>
          /\ tasks[c].result = Ok(tasks[e].args.doc)
          /\ Did(tasks[c].result.val) = to_did(tasks[c].args.did)

\* the document of the first key, with an alias and a did:key, was
\* published by one caller and resolved by the other
C13_Witness ==
    \E c, e \in Tasks :
       /\ ResolvedWhatWasPublished(c, e)
       /\ tasks[e].args.doc = DocSmall
       /\ tasks[c].result = Ok(DocSmall)
       /\ Did(tasks[c].result.val) = to_did(tasks[c].args.did)

\* C13, as stated: after publish of any document returned Ok, resolve and
\* resolve_most_recent return a document equal to it.
C13_EveryPublishedIsResolved ==
    \A c, e \in Tasks :
       ResolvedWhatWasPublished(c, e) =>
          /\ tasks[c].result = Ok(tasks[e].args.doc)
          /\ Did(tasks[c].result.val) = to_did(tasks[c].args.did)


\* the calls made so far
Called == {c \in Tasks : tasks[c].op # "none"}

\* what a resolver operation returns for an answer of the client
ReturnsFor(answer) ==
    IF answer = NoPacket THEN {Err(<<"NotFound">>)}
    ELSE {IF t.ok THEN t ELSE Err(<<"Invalid">> \o t.err) :
             t \in Conversions(answer)}

\* C14: every call of resolve or resolve_most_recent has issued exactly one
\* request, of the client operation of its own name and for the key of its
\* DID; every publish has issued at most one, a publish request; the client
\* has received nothing else; and a resolve returns what the client
\* answered to its own request, whatever an earlier resolve of the same DID
\* was answered.
C14_OneRequestPerCall ==
    /\ \A c \in Tasks :
          /\ tasks[c].op \in ResolveOps =>
                RequestsOf(c) =
                   <<<<c, [op |-> tasks[c].op,
                           public_key |-> tasks[c].args.did.key_repr]>>>>
          /\ tasks[c].op = "publish" =>
                /\ Len(RequestsOf(c)) <= 1
                /\ \A i \in DOMAIN RequestsOf(c) :
                      /\ RequestsOf(c)[i][2].op = "publish"
                      /\ RequestsOf(c)[i][2].packet.public_key = tasks[c].args.doc.id
                /\ tasks[c].answer # NoAnswer => Len(RequestsOf(c)) = 1
          /\ tasks[c].op = "none" => RequestsOf(c) = <<>>
    /\ Len(requests) <= Cardinality(Called)
    /\ \A c \in ResolvesDone : tasks[c].result \in ReturnsFor(tasks[c].answer)

\* two resolves of one DID, one after the other: two requests, and the
\* second returned what the client answered then, not what the first got
C14_Witness ==
    /\ ResolvesDone = Tasks
    /\ tasks[1].op = "resolve"
    /\ tasks[2].op = "resolve"
    /\ tasks[1].args = tasks[2].args
    /\ Len(requests) = 2
    /\ requests[1][1] = 1
    /\ tasks[1].result = Err(<<"NotFound">>)
    /\ tasks[2].answer # NoPacket
    /\ tasks[2].result # tasks[1].result


\* what a call returns when it runs alone with the given arguments and is
\* given the answer to its request: NoAnswer when it issues no request
SoloResults(op, args, answer) ==
    IF op \in ResolveOps THEN ReturnsFor(answer)
    ELSE {IF p.ok THEN PublishReturn(answer) ELSE p :
             p \in {q \in {PublishPrepare(args.doc, args.timestamp,
                                          args.signing_key, now) :
                              now \in ClockReadings} :
                       q.ok = (answer # NoAnswer)}}

\* the request a call issues when it runs alone, NoRequest if it issues none
SoloRequests(op, args) ==
    IF op \in ResolveOps THEN {ResolveRequest(op, args.did)}
    ELSE {IF p.ok THEN p.request ELSE NoRequest :
             p \in {PublishPrepare(args.doc, args.timestamp,
                                   args.signing_key, now) :
                       now \in ClockReadings}}

Finished == doc # NoDoc /\ supplied # NoBuilder

\* C16: the document finish() yields after calls of verification_method,
\* none of which panicked, has vm in ascending order without duplicates,
\* holding exactly the methods supplied, vr as long as vm, and vr[i] the
\* truncation of the relationship the latest call naming vm[i] supplied,
\* which is not empty; a call whose relationship has no recognized bit has
\* panicked, and no other call has.
C16_BuilderVerificationMethods ==
    /\ Finished =>
          LET vm == doc.contents.vm
              vr == doc.contents.vr
              given == supplied.verification_methods
          IN /\ \A i \in 1..(Len(vm) - 1) : VmLess(vm[i], vm[i + 1])
             /\ \A i, j \in DOMAIN vm : vm[i] = vm[j] => i = j
             /\ {vm[i] : i \in DOMAIN vm} = DOMAIN given
             /\ Len(vm) = Len(vr)
             /\ \A i \in DOMAIN vm :
                   /\ vr[i] = BitAnd(given[vm[i]], Authentication + Assertion + KeyAgreement)
                   /\ vr[i] # 0
    /\ supplied # NoBuilder =>
          ((ppc = "panicked") <=>
              \E m \in DOMAIN supplied.verification_methods :
                 BitAnd(supplied.verification_methods[m],
                        Authentication + Assertion + KeyAgreement) = 0)

\* one method was named by two calls, the later with a bit that is not
\* recognized, and finish yielded two methods
C16_Witness ==
    /\ Finished
    /\ ppc = "doc"
    /\ Len(doc.contents.vm) = 2
    /\ supplied.verification_methods[doc.contents.vm[1]] = 129
    /\ doc.contents.vr = <<Authentication, Assertion + KeyAgreement>>


\* C17: whatever the order of the also_known_as calls and however often a
\* URI was supplied, finish() yields as aka the set of the supplied URIs in
\* ascending order without duplicates, and as id the key the builder was
\* made with.
C17_BuilderAliases ==
    Finished =>
       LET aka == doc.contents.aka
       IN /\ \A i \in 1..(Len(aka) - 1) : StrLess(aka[i], aka[i + 1])
          /\ {aka[i] : i \in DOMAIN aka} = supplied.also_known_as
          /\ Len(aka) = Cardinality(supplied.also_known_as)
          /\ doc.id = supplied.pubkey

\* finish yielded both short aliases for the second key
C17_Witness ==
    /\ Finished
    /\ ppc = "doc"
    /\ supplied.also_known_as = {UriA, UriB}
    /\ doc.contents.aka = <<UriA, UriB>>
    /\ doc.id = ED25519_EXAMPLES[2].public
    /\ supplied.pubkey = doc.id



(***************************************************************************)
(* Claims about the classification of the keys and the limits of decode.   *)
(***************************************************************************)
\* the keys of the record that carry a value
ValuedKeys(record) ==
    UNION {{k \in DOMAIN attrs : attrs[k].some} : attrs \in {Attributes(record)}}

\* the lists decode assembles of the record, for each order of the drain
Assemblies(record) ==
    {assemble_into_lists(a, order) :
        a \in {Attributes(record)}, order \in Orders(record)}

\* C18, as the code has it: decode splits every valued key at its FIRST
\* ASCII digit.  A key without a digit is a singleton; any other key is an
\* entry of the list named by what precedes the first digit (which may be
\* empty and need not be alphabetic), at the index that the rest of the
\* key denotes, and the assembly fails when that rest is not the decimal
\* text of a u8, as it does for a repeated or a skipped index.  (Checked
\* for the records of at most MaxAttrs character-strings.)
C18_SplitAtFirstDigit ==
    (pc = "decoded" /\ Len(txt) <= MaxAttrs) =>
       /\ decoded.ok =>
             NoMalformedIndex(txt) /\ NoRepeatedIndex(txt) /\ ~HasGap(txt)
       /\ \A lists \in Assemblies(txt) :
             /\ lists.ok <=>
                   NoMalformedIndex(txt) /\ NoRepeatedIndex(txt) /\ ~HasGap(txt)
             /\ lists.ok =>
                   /\ DOMAIN lists.singleton =
                         {k \in ValuedKeys(txt) : ~HasDigit(k)}
                   /\ DOMAIN lists.varlen =
                         {KeyPrefix(k) : k \in IndexedKeys(txt)}
                   /\ \A k \in IndexedKeys(txt) :
                         lists.varlen[KeyPrefix(k)][KeyNumber(k) + 1] =
                            Attributes(txt)[k].v

\* a record with the keys "v1x" and "1" and nothing else was decoded
C18_Witness ==
    /\ pc = "decoded"
    /\ origin = "wire"
    /\ txt = RecordOf({12, 13})
    /\ decoded = [ok |-> FALSE, err |-> <<"ListAssembly", "KeySuffixNotU8">>]

\* the split the claim describes: the trailing run of digits is the index
EndsInDigit(k) == k # <<>> /\ k[Len(k)] \in DigitSet

TrailingPrefix(k) == Slice(k, 1, Len(k) - TrailingDigits(k))

Alphabetic(s) == \A i \in DOMAIN s : s[i] \notin DigitSet /\ Ord(s[i]) >= 65

\* C18, as stated: a valued key that does not end in a digit is a
\* singleton, and only a key with a non-empty alphabetic prefix before its
\* trailing digits is a list entry; so a record none of whose keys is such
\* a list entry is assembled without error, all its valued keys that do
\* not end in a digit being singletons.
C18_SplitAtTrailingDigits ==
    (pc = "decoded" /\ Len(txt) <= MaxAttrs
       /\ \A k \in ValuedKeys(txt) :
             ~(EndsInDigit(k) /\ TrailingPrefix(k) # <<>>
                 /\ Alphabetic(TrailingPrefix(k)))) =>
       \A lists \in Assemblies(txt) :
          /\ lists.ok
          /\ {k \in ValuedKeys(txt) : ~EndsInDigit(k)} \subseteq DOMAIN lists.singleton


\* the number of entries of the attribute map of a record
DistinctKeys(record) == Cardinality({AttrKey(record[i]) : i \in DOMAIN record})

TooManyAttrsErr == [ok |-> FALSE, err |-> <<"TooManyAttrs">>]

\* C19: decode returns TooManyAttrs exactly for the records whose
\* attribute map has 255 entries or more, whatever else is wrong with
\* them; a record with 254 entries is not rejected for its size.
C19_TooManyAttrsAt255 ==
    pc = "decoded" => ((decoded = TooManyAttrsErr) <=> (DistinctKeys(txt) >= U8_MAX))

\* the record aka1..aka255, which has 255 entries and skips index 0, was
\* refused for its size
C19_Witness ==
    /\ pc = "decoded"
    /\ txt = ManyAliases(1, U8_MAX)
    /\ DistinctKeys(txt) = U8_MAX
    /\ decoded = TooManyAttrsErr


\* the errors of FromTxtRecordErr and ListAssemblyErr
DecodeErrors ==
    {<<"TooManyAttrs">>, <<"AkaParseErr">>, <<"VmParseErr">>, <<"VrParseErr">>,
     <<"ListAssembly", "KeySuffixNotU8">>, <<"ListAssembly", "SkippedIndex">>,
     <<"ListAssembly", "DuplicateIndex">>}

\* C20: decode returns for every record: a document, or one of TooManyAttrs,
\* AkaParseErr, VmParseErr, VrParseErr and ListAssembly with KeySuffixNotU8,
\* SkippedIndex or DuplicateIndex; it never panics, and it leaves the
\* record it read, and the document the record was encoded from, as they
\* were.
C20_DecodeTotal ==
    pc = "decoded" =>
       /\ IF decoded = Panic \/ decoded = NoResult THEN FALSE
          ELSE IF decoded.ok
               THEN DOMAIN decoded.val = {"aka", "vm", "vr"}
               ELSE decoded.err \in DecodeErrors
       /\ IF origin = "doc" THEN x \in Contents /\ txt = ToTxtRecord(x)
          ELSE x = NoContents /\ txt \in WireRecords

\* a record with an alias and a vr attribute that is not base64url was
\* decoded to VrParseErr
C20_Witness ==
    /\ pc = "decoded"
    /\ origin = "wire"
    /\ txt = <<AttrPool[1], BadVr>>
    /\ decoded = [ok |-> FALSE, err |-> <<"VrParseErr">>]



(***************************************************************************)
(* Further properties of the codec.                                        *)
(***************************************************************************)
\* C21: the outcome of decode (the document or the error variant) depends
\* only on the record's attribute map, not on the order in which the
\* attributes are visited, also for a record with more than one fault.
C21_DecodeDeterministic ==
    pc = "decoded" => \A order \in Orders(txt) : TryFromTxt(txt, order) = decoded


\* a key with digits whose text from the first digit on is not a u8
MalformedIndex(k) == ~(DigitsAreSuffix(k) /\ KeyNumber(k) <= U8_MAX)

\* the faults among the indexed attributes of a record, each as
\* <<error, list name>>: a suffix that is not a u8, two keys that name one
\* index of a list, a list whose indices are not 0..n-1
IndexFaults(record) ==
    UNION { UNION { UNION {
        {<<"KeySuffixNotU8", ListName(k)>> : k \in keys \ good}
          \cup {<<"DuplicateIndex", e[1]>> :
                  e \in {f \in named : \E g \in named :
                            g[1] = f[1] /\ g[2] = f[2] /\ g[3] # f[3]}}
          \cup {<<"SkippedIndex", e[1]>> :
                  e \in {f \in named :
                           \E indices \in {{g[2] : g \in {h \in named : h[1] = f[1]}}} :
                              indices # 0..(Cardinality(indices) - 1)}}
        : named \in {{<<ListName(k), KeyNumber(k), k>> : k \in good}} }
      : good \in {{k \in keys : ~MalformedIndex(k)}} }
    : keys \in {IndexedKeys(record)} }

ListAssemblyErr(kind) == [ok |-> FALSE, err |-> <<"ListAssembly", kind>>]

BelowLimit(record) == Cardinality(DOMAIN Attributes(record)) < U8_MAX

\* C22: the index validations apply to every list name: a record below
\* the attribute limit whose only fault is a gap, a repeated index or a
\* suffix that is not a u8 under a name other than aka and vm is rejected
\* with the ListAssembly error of that fault.
C22_ForeignListsValidated ==
    (pc = "decoded" /\ origin = "wire" /\ BelowLimit(txt)) =>
       \A faults \in {IndexFaults(txt)} :
          \A f \in faults :
             (faults = {f} /\ f[2] \notin {AKA, VM})
                => decoded = ListAssemblyErr(f[1])

\* aka0, foo1 without foo0, and vr were decoded to SkippedIndex
C22_Witness ==
    /\ pc = "decoded"
    /\ txt = <<AttrPool[1], Foo1, AttrPool[9]>>
    /\ IndexFaults(txt) = {<<"SkippedIndex", <<"f", "o", "o">>>>}
    /\ decoded = ListAssemblyErr("SkippedIndex")

\* two valued keys of the record name one index of one list
SameIndexTwice(record) ==
    \E named \in {NamedIndices(record)} :
       \E e, f \in named : e[1] = f[1] /\ e[2] = f[2] /\ e[3] # f[3]

UninterpretedKeys(record) ==
    UNION { UNION {
        {k \in DOMAIN attrs : ~attrs[k].some}
          \cup {k \in DOMAIN attrs : attrs[k].some /\ ~HasDigit(k) /\ k # VR}
          \cup {k \in DOMAIN attrs :
                  /\ attrs[k].some /\ HasDigit(k)
                  /\ ListName(k) \notin {AKA, VM}
                  /\ \A f \in faults : f[2] # ListName(k)}
        : faults \in {IndexFaults(record)} }
    : attrs \in {Attributes(record)} }

\* the record without the character-strings of those keys
Interpreted(record) ==
    CHOOSE r \in {SelectSeq(record, LAMBDA cs : AttrKey(cs) \notin keys) :
                     keys \in {UninterpretedKeys(record)}} : TRUE

Assembled(record) ==
    CHOOSE r \in {assemble_into_lists(attrs, FirstKeys(record)) :
                     attrs \in {Attributes(record)}} : TRUE

BadAliases(lists) ==
    {i \in DOMAIN Lookup(lists.varlen, AKA, <<>>) : ~IsUri(lists.varlen[AKA][i])}

BadMethods(lists) ==
    {i \in DOMAIN Lookup(lists.varlen, VM, <<>>) : ~VmTryFrom(lists.varlen[VM][i]).ok}

BadVrText(lists) == ~b64_dec(Lookup(lists.singleton, VR, <<>>)).ok

\* C25: in a record that passes list assembly, a malformed alias yields
\* AkaParseErr, a verification method that is not a URI or not a DID yields
\* VmParseErr, and a vr that is not base64url-no-pad yields VrParseErr: a
\* value that does not parse is reported under its own variant (of several,
\* the first of aka, vm, vr) and is never dropped or replaced by a default;
\* a document is returned only when every value parses, with every element.
C25_ParseErrorsByVariant ==
    (pc = "decoded" /\ origin = "wire" /\ BelowLimit(txt)) =>
       \A lists \in {Assembled(txt)} :
          lists.ok =>
             /\ BadAliases(lists) # {} => decoded = Err(<<"AkaParseErr">>)
             /\ (BadAliases(lists) = {} /\ BadMethods(lists) # {})
                   => decoded = Err(<<"VmParseErr">>)
             /\ (BadAliases(lists) = {} /\ BadMethods(lists) = {} /\ BadVrText(lists))
                   => decoded = Err(<<"VrParseErr">>)
             /\ (BadAliases(lists) = {} /\ BadMethods(lists) = {} /\ ~BadVrText(lists))
                   => /\ decoded.ok
                      /\ decoded.val.aka = Lookup(lists.varlen, AKA, <<>>)
                      /\ Len(decoded.val.vm) = Len(Lookup(lists.varlen, VM, <<>>))

\* vm0=:x, whose value is not a URI, was decoded to VmParseErr although
\* the record's vr does not parse either
C25_Witness ==
    /\ pc = "decoded"
    /\ txt = <<BadVr, NotUriVm>>
    /\ Assembled(txt).ok
    /\ BadMethods(Assembled(txt)) = {1}
    /\ decoded = Err(<<"VmParseErr">>)


\* the number of attributes to_txt_record emits for a document
AttrCount(c) == Len(c.aka) + Len(c.vm) + 1

\* the emitted character-strings whose index is above u8::MAX
EmittedAboveU8(record) ==
    {i \in DOMAIN record : KeyNumber(AttrKey(record[i])) > U8_MAX}

C27_ToTxtRecordNeverPanics ==
    (origin = "doc" /\ pc # "doc") => pc \in {"encoded", "decoded"}

\* text is the decimal numeral of n, without leading zeros
IsDecimalOf(text, n) ==
    /\ text # <<>>
    /\ \A i \in DOMAIN text : text[i] \in DigitSet
    /\ Len(text) > 1 => text[1] # "0"
    /\ DigitsValue(text) = n

\* cs is "<prefix><index>=<value>"
IsIndexedAttr(cs, prefix, index, value) ==
    \E eq \in 1..Len(cs) :
       /\ cs[eq] = "="
       /\ Len(cs) = eq + Len(value)
       /\ Slice(cs, eq + 1, Len(cs)) = value
       /\ eq > Len(prefix) + 1
       /\ Slice(cs, 1, Len(prefix)) = prefix
       /\ IsDecimalOf(Slice(cs, Len(prefix) + 1, eq - 1), index)

\* cs is "vr=" and the unpadded base64url text of bytes
IsVrAttr(cs, bytes) ==
    /\ Len(cs) = Len(VR) + 1 + (4 * Len(bytes) + 2) \div 3
    /\ Slice(cs, 1, Len(VR) + 1) = VR \o <<"=">>
    /\ \A text \in {Slice(cs, Len(VR) + 2, Len(cs))} :
          /\ \A i \in DOMAIN text : text[i] \in Range(B64Alphabet)
          /\ b64_dec(text) = [ok |-> TRUE, bytes |-> bytes]

\* C28: the record to_txt_record returns holds exactly aka.len() +
\* vm.len() + 1 character-strings, in the order aka0..aka(n-1),
\* vm0..vm(m-1), vr: the i-th alias as aka<i>=<uri text>, the i-th method
\* as vm<i>=<did text>, i the zero-based decimal position without leading
\* zeros, and last one vr= attribute with the base64url-no-pad text of one
\* byte per relationship, also when vr is empty.
C28_EmittedAttributes ==
    (origin = "doc" /\ pc \in {"encoded", "decoded"}) =>
       /\ Len(txt) = AttrCount(x)
       /\ \A i \in DOMAIN x.aka : IsIndexedAttr(txt[i], AKA, i - 1, x.aka[i])
       /\ \A i \in DOMAIN x.vm :
             IsIndexedAttr(txt[Len(x.aka) + i], VM, i - 1, x.vm[i].did.uri)
       /\ IsVrAttr(txt[Len(txt)], x.vr)

\* eleven aliases and no method were encoded: the eleventh
\* character-string is aka10=at://x and the twelfth is vr=
C28_Witness ==
    /\ origin = "doc"
    /\ pc = "encoded"
    /\ Len(x.aka) = 11 /\ x.vm = <<>> /\ x.vr = <<>>
    /\ txt[11] = AKA \o <<"1", "0", "=">> \o UriA
    /\ txt[12] = VR \o <<"=">>



(***************************************************************************)
(* Properties of DidPkarr.                                                 *)
(***************************************************************************)
\* C29: for any two DidPkarr values, however constructed, the keys are
\* equal if and only if the strings are equal, so that the debug assertion
\* in eq never fails; the string of every value is "did:pkarr:" followed
\* by the z-base-32 text of its key.
C29_KeysEqualIffStringsEqual ==
    /\ \A i, j \in DOMAIN dids :
          (as_pubkey(dids[i]) = as_pubkey(dids[j])) <=> (as_str(dids[i]) = as_str(dids[j]))
    /\ \A i \in DOMAIN dids :
          as_str(dids[i]) = DidPkarrPrefix \o public_key_to_z32(as_pubkey(dids[i]))
    /\ (outcome # NoResult /\ outcome.op = "eq") => outcome.val # Panic

(***************************************************************************)
(* Properties of the conversion into the CLI's DidDocument.                *)
(***************************************************************************)
\* C30: converting a document that was parsed from a packet without error
\* into the CLI's DidDocument never panics and yields one
\* verification_method entry per decoded verification method, with
\* authentication the indices whose relationship contains Authentication
\* and assertion the indices whose relationship contains Assertion.
C30_IntoDidDocumentTotal ==
    (shown # NoResult /\ shown.op = "into_did_document") =>
       /\ shown.val # Panic
       /\ Len(shown.val.verification_method) = Len(shown.of.contents.vm)
       /\ shown.val.authentication =
             {i - 1 : i \in {j \in DOMAIN shown.of.contents.vr :
                               Contains(shown.of.contents.vr[j], Authentication)}}
       /\ shown.val.assertion =
             {i - 1 : i \in {j \in DOMAIN shown.of.contents.vr :
                               Contains(shown.of.contents.vr[j], Assertion)}}

=============================================================================
